---- MODULE Spec2Model ----
(***************************************************************************)
(* A model of the Yices JNI shim (src/main/java/com/sri/yices/yicesJNI.cpp) *)
(*                                                                         *)
(* The shim is a set of synchronous entry points called by one host        *)
(* thread.  An action of this module is one whole entry point: it reads    *)
(* its inputs and the answers of its environment (the host runtime's JNI   *)
(* functions and the native solver library), runs the body of the entry    *)
(* point and leaves the frame of the call (return value, pending host      *)
(* exception, views acquired and released, native calls made, the host     *)
(* arrays after the call) in the state.  Return is the host taking the     *)
(* result: the frame is discarded and the next call may start.             *)
(*                                                                         *)
(* Inside an entry point the code is sequential; it is written here as a   *)
(* composition of steps on a frame record f.  A step does nothing once the *)
(* process is dead (f.proc # "running").                                   *)
(***************************************************************************)
EXTENDS Integers, Sequences, FiniteSets, TLC

VARIABLES
  lib,      \* "uninit" | "ready" | "exited": the native library's life cycle
  hook,     \* TRUE when the allocation-failure callback is installed
  proc,     \* "running" | "exited" | "fatal" | "escaped" | "crashed"
  yerr,     \* the native library's last error code (0: no error)
  op,       \* the entry point of the current frame, "none" between calls
  input,    \* the arguments of the call (host arrays as they were at entry)
  jvm,      \* the host's answers to out_of_mem_exception, when it ran
  ret,      \* the value the entry point returns
  pending,  \* the host exception pending at return
  fault,    \* TRUE when the allocation-failure callback fired in this call
  acq,      \* views acquired: name -> <<"copy" | "direct", host array>>
  rel,      \* views released, in order: <<name, mode>>
  ncalls,   \* native library calls made, in order: <<function, arguments>>
  harr,     \* the caller's host arrays as they are at return: name -> contents
  raised,   \* how many times out_of_mem_exception ran in this call
  heap,     \* operator new / delete[] of this call, in order: <<"new" | "delete", block>>
  ub,       \* undefined behaviour the call ran into
  mfail,    \* how many host allocations (views, result objects, new) failed in this call
  nerr,     \* the error code the library reported in this call, 0 if none
  nret,     \* what the last library function that returned in this call returned
  made      \* the library holds terms or types other than the predefined ones

vars == <<lib, hook, proc, yerr, op, input, jvm, ret, pending, fault, acq, rel,
          ncalls, harr, raised, heap, ub, mfail, nerr, nret, made>>

(***************************************************************************)
(* Bounds of the model                                                     *)
(***************************************************************************)
\* longest byte sequence handed to the decoder, before sign padding
MaxLen == 2
\* most sign-padding bytes put in front of a byte sequence
MaxPad == 1
\* every integer of magnitude up to SmallMag is encoded
SmallMag == 130
\* the boundaries +/-2^(8k-1), +/-2^(8k) are encoded for k up to MaxBytes
MaxBytes == 2
\* host arrays of the n-ary connectives have up to AUX_SIZE + ArrAbove elements
ArrAbove == 1

\* host arrays of the other entry points have up to MaxArgs elements
MaxArgs == 2

\* the bytes of bytesToRationalConstant's arguments go from -RatMag to RatMag
RatMag == 4

\* bitvectors have up to BvStack + WidthAbove bits
WidthAbove == 1

\* int32_t a[64]
BvStack == 64

\* #define AUX_SIZE 10
AUX_SIZE == 10

(***************************************************************************)
(* Values                                                                  *)
(***************************************************************************)
NULL == [k |-> "null"]
RInt(v) == [k |-> "int", v |-> v]
RBool(v) == [k |-> "bool", v |-> v]
RBytes(s) == [k |-> "bytes", v |-> s]
RVoid == [k |-> "void"]
\* a reference that was never assigned: whatever the stack held
RStr(s) == [k |-> "str", v |-> s]
RBools(b) == [k |-> "bools", v |-> b]
RInts(a) == [k |-> "ints", v |-> a]
RWild == [k |-> "wild"]

JNI_ABORT == 2
JNI_OK == 0

EmptyFn == [x \in {} |-> 0]

\* jbyte is a signed 8-bit integer; (uint8_t) b and the store of x & 255
U8(b) == b % 256
I8(x) == IF x % 256 >= 128 THEN (x % 256) - 256 ELSE x % 256

RECURSIVE Pow(_, _)
Pow(a, n) == IF n = 0 THEN 1 ELSE a * Pow(a, n - 1)

Abs(z) == IF z < 0 THEN -z ELSE z

(***************************************************************************)
(* GMP as the shim uses it.  An mpz is an integer.                         *)
(***************************************************************************)
RECURSIVE BitLen(_)
BitLen(m) == IF m = 0 THEN 0 ELSE 1 + BitLen(m \div 2)

\* mpz_sizeinbase(z, 2): the number of bits of |z|, and 1 for z = 0
mpz_sizeinbase2(z) == IF z = 0 THEN 1 ELSE BitLen(Abs(z))

RECURSIVE MagBytes(_)
MagBytes(m) == IF m = 0 THEN <<>> ELSE Append(MagBytes(m \div 256), I8(m % 256))

\* mpz_export(aux + 1, NULL, 1, 1, 0, 0, z): the bytes of |z|, most significant
\* first, written from index 2 of the buffer on; nothing is written for z = 0
mpz_export(aux, z) ==
  LET m == MagBytes(Abs(z))
  IN [i \in DOMAIN aux |-> IF i >= 2 /\ i - 1 <= Len(m) THEN m[i - 1] ELSE aux[i]]

RECURSIVE Unsigned(_)
Unsigned(b) ==
  IF b = <<>> THEN 0
  ELSE 256 * Unsigned(SubSeq(b, 1, Len(b) - 1)) + U8(b[Len(b)])

\* mpz_import(z, n, 1, 1, 0, 0, b): the unsigned big-endian value of b[0..n-1]
mpz_import(n, b) == Unsigned(SubSeq(b, 1, n))

(***************************************************************************)
(* 2s-complement negation of b[0 ... n-1]                                  *)
(***************************************************************************)
RECURSIVE negate_loop(_, _, _)
\* the body of the do-while at index k (after k--), carry c
negate_loop(b, k, c) ==
  LET x == (255 - U8(b[k + 1])) + c
      b2 == [b EXCEPT ![k + 1] = I8(x % 256)]
  IN IF k > 0 THEN negate_loop(b2, k - 1, x \div 256) ELSE b2

\* a negation that forgets the initial carry (one's complement)
negate_bytes_nocarry(b, n) == IF n = 0 THEN b ELSE negate_loop(b, n - 1, 0)

\* unsigned c = 1; unsigned k = n; do { k--; ... } while (k > 0);
\* with n = 0 the index wraps below zero and the write falls outside b: the
\* callers record that as undefined behaviour, b itself is left as it is
negate_bytes(b, n) == IF n = 0 THEN b ELSE negate_loop(b, n - 1, 1)

(***************************************************************************)
(* The frame of a call and the steps of the sequential code                *)
(***************************************************************************)
NewFrame(arrays) ==
  [ret |-> RVoid, val |-> 0, pending |-> "none", proc |-> "running",
   thrown |-> FALSE, fault |-> FALSE, raised |-> 0, acq |-> EmptyFn,
   bufs |-> EmptyFn, rel |-> <<>>, ncalls |-> <<>>, harr |-> arrays,
   heap |-> <<>>, ptr |-> "NULL", yerr |-> yerr, ub |-> {},
   mfail |-> 0, nerr |-> 0, nret |-> NULL, made |-> made]

\* the code at this point runs: the process is alive and no C++ exception is
\* unwinding the stack
Live(f) == f.proc = "running" /\ ~f.thrown

\* throw std::bad_alloc();
throw_out_of_mem_exception(f) == [f EXCEPT !.thrown = TRUE]

\* an allocation of the native library fails: the library calls the installed
\* callback, and without one its default is exit(1)
AllocFails(f) ==
  IF hook THEN throw_out_of_mem_exception([f EXCEPT !.fault = TRUE])
  ELSE [f EXCEPT !.proc = "exited"]

\* the host's answers to the JNI calls of out_of_mem_exception:
\*   shim:    FindClass("com/sri/yices/OutOfMemory") finds the class
\*   generic: FindClass("java/lang/OutOfMemoryError") finds the class
\*   thrown:  ThrowNew returns 0 (the exception is pending)
\*   stale:   when nothing could be thrown, the host has left an exception of
\*            its own pending (ExceptionCheck answers true)
\* An answer the code never asks for is fixed: generic when the shim's class
\* is found, thrown when no class is found, stale when the throw worked.
JvmConds ==
  {h \in [shim : BOOLEAN, generic : BOOLEAN, thrown : BOOLEAN, stale : BOOLEAN] :
     /\ h.shim => h.generic
     /\ ~h.generic => ~h.thrown
     /\ (h.generic /\ h.thrown) => ~h.stale}
NoJvm == [shim |-> TRUE, generic |-> TRUE, thrown |-> TRUE, stale |-> FALSE]

\* a handler that knows the shim's exception class only
out_of_mem_exception_shim_only(f, h) ==
  IF ~Live(f) THEN f
  ELSE
    LET f1 == [f EXCEPT !.raised = @ + 1]
    IN IF h.shim /\ h.thrown THEN [f1 EXCEPT !.pending = "OutOfMemory"]
       ELSE IF f.pending # "none" THEN f1
       ELSE IF h.stale THEN [f1 EXCEPT !.pending = "HostException"]
       ELSE [f1 EXCEPT !.proc = "fatal"]

out_of_mem_exception(f, h) ==
  IF ~Live(f) THEN f
  ELSE
    LET e == IF h.shim THEN "OutOfMemory"
             ELSE IF h.generic THEN "OutOfMemoryError" ELSE "NULL"
        code == IF e # "NULL" THEN (IF h.thrown THEN 0 ELSE -1) ELSE 0
        f1 == [f EXCEPT !.raised = @ + 1]
    IN IF e = "NULL" \/ code < 0
       THEN IF f.pending # "none" THEN f1
            ELSE IF h.stale THEN [f1 EXCEPT !.pending = "HostException"]
            ELSE [f1 EXCEPT !.proc = "fatal"]
       ELSE [f1 EXCEPT !.pending = e]

\* an entry point without the catch clause
Catch_absent(f, h) == f

\* try { ... } catch (std::bad_alloc &ba) { out_of_mem_exception(env); }
Catch(f, h) ==
  IF f.proc = "running" /\ f.thrown
  THEN out_of_mem_exception([f EXCEPT !.thrown = FALSE], h)
  ELSE f

\* Get<Type>ArrayElements / GetStringUTFChars: how is "fail" (NULL), "copy"
\* (a copy of the array) or "direct" (a pointer into the host array)
Acquire(f, view, array, how) ==
  IF ~Live(f) THEN f
  ELSE IF how = "fail" THEN [f EXCEPT !.mfail = @ + 1]
  ELSE [f EXCEPT !.acq = (view :> <<how, array>>) @@ @,
                 !.bufs = (view :> f.harr[array]) @@ @]

IsNull(f, view) == view \notin DOMAIN f.acq

\* what the native code reads through the view
Buf(f, view) ==
  IF view \in DOMAIN f.acq /\ f.acq[view][1] = "direct"
  THEN f.harr[f.acq[view][2]] ELSE f.bufs[view]

\* the native code writes through the view
WriteBuf(f, view, b) ==
  IF ~Live(f) THEN f
  ELSE IF view \in DOMAIN f.acq /\ f.acq[view][1] = "direct"
       THEN [f EXCEPT !.harr[f.acq[view][2]] = b]
       ELSE [f EXCEPT !.bufs[view] = b]

\* a release that is skipped once an exception is pending
Release_unless_pending(f, view, mode) ==
  IF ~Live(f) \/ f.pending # "none" THEN f
  ELSE LET f1 == [f EXCEPT !.rel = Append(@, <<view, mode>>)]
       IN IF view \in DOMAIN f.acq /\ f.acq[view][1] = "copy" /\ mode # JNI_ABORT
          THEN [f1 EXCEPT !.harr[f.acq[view][2]] = f.bufs[view]]
          ELSE f1

\* Release<Type>ArrayElements(array, view, mode) / ReleaseStringUTFChars
Release(f, view, mode) ==
  IF ~Live(f) THEN f
  ELSE LET f1 == [f EXCEPT !.rel = Append(@, <<view, mode>>)]
       IN IF ~IsNull(f, view) /\ f.acq[view][1] = "copy" /\ mode # JNI_ABORT
          THEN [f1 EXCEPT !.harr[f.acq[view][2]] = f.bufs[view]]
          ELSE f1

\* a call of a native library function; o is what the library does:
\*   [kind |-> "ok", val |-> v]    it returns v
\*   [kind |-> "err", code |-> c]  it reports the semantic error c and returns -1
\*   [kind |-> "oom"]              an allocation fails inside it
\* a library call after which a semantic error is a pending exception
NativeRet_error_raises(f, fn, args, o, failure) ==
  IF ~Live(f) THEN f
  ELSE LET f1 == [f EXCEPT !.ncalls = Append(@, <<fn, args>>)]
       IN CASE o.kind = "oom" -> AllocFails(f1)
            [] o.kind = "err" -> [f1 EXCEPT !.yerr = o.code, !.nerr = o.code,
                                            !.val = failure, !.nret = failure,
                                            !.pending = "OutOfMemory"]
            [] OTHER -> [f1 EXCEPT !.val = o.val, !.nret = o.val]

\* the library functions of the model that build a term, a type or a model
Constructors ==
  {"yices_eq", "yices_and", "yices_or", "yices_xor", "yices_distinct",
   "yices_forall", "yices_exists", "yices_tuple_type", "yices_tuple",
   "yices_application", "yices_poly_int64", "yices_poly_rational64",
   "yices_model_from_map", "yices_mpz", "yices_mpq", "yices_subst_term",
   "yices_subst_term_array", "yices_rational64", "yices_power",
   "yices_bv_type", "yices_new_scalar_type", "yices_bvconst_int64",
   "yices_shift_left0"}

\* failure is the value the function returns with an error: -1, NULL, false
NativeRet(f, fn, args, o, failure) ==
  IF ~Live(f) THEN f
  ELSE LET f1 == [f EXCEPT !.ncalls = Append(@, <<fn, args>>)]
       IN CASE o.kind = "oom" -> AllocFails(f1)
            [] o.kind = "err" -> [f1 EXCEPT !.yerr = o.code, !.nerr = o.code,
                                            !.val = failure, !.nret = failure]
            [] OTHER -> [f1 EXCEPT !.val = o.val, !.nret = o.val,
                                   !.made = @ \/ fn \in Constructors]

Native(f, fn, args, o) == NativeRet(f, fn, args, o, -1)

\* a call of a library function that cannot fail and returns nothing
Call(f, fn, args) ==
  IF ~Live(f) THEN f ELSE [f EXCEPT !.ncalls = Append(@, <<fn, args>>)]

\* what the library may do in a call that builds a term or a type: return a
\* handle, report a semantic error, or run out of memory
Ok(v) == [kind |-> "ok", val |-> v]
Err(c) == [kind |-> "err", code |-> c]
Oom == [kind |-> "oom"]

\* new T[n]: the block is allocated, or std::bad_alloc is thrown
New(f, block, ok) ==
  IF ~Live(f) THEN f
  ELSE IF ok THEN [f EXCEPT !.heap = Append(@, <<"new", block>>)]
  ELSE throw_out_of_mem_exception([f EXCEPT !.mfail = @ + 1])

\* delete[] block
Delete(f, block) ==
  IF ~Live(f) THEN f ELSE [f EXCEPT !.heap = Append(@, <<"delete", block>>)]

\* mpz_init(z), mpq_init(q): a GMP number comes to life; it is a C struct,
\* nothing clears it when the stack unwinds
mpz_init(f, z) ==
  IF ~Live(f) THEN f ELSE [f EXCEPT !.heap = Append(@, <<"new", z>>)]

\* mpz_clear(z), mpq_clear(q)
mpz_clear(f, z) ==
  IF ~Live(f) THEN f ELSE [f EXCEPT !.heap = Append(@, <<"delete", z>>)]

\* yices_init_type_vector(&aux);
yices_init_type_vector(f) ==
  IF ~Live(f) THEN f
  ELSE [f EXCEPT !.heap = Append(@, <<"new", "aux">>),
                 !.ncalls = Append(@, <<"yices_init_type_vector", <<>>>>)]

\* yices_delete_type_vector(&aux);
yices_delete_type_vector(f) ==
  IF ~Live(f) THEN f
  ELSE [f EXCEPT !.heap = Append(@, <<"delete", "aux">>),
                 !.ncalls = Append(@, <<"yices_delete_type_vector", <<>>>>)]

\* the code does something the language leaves undefined
Undefined(f, what) == IF ~Live(f) THEN f ELSE [f EXCEPT !.ub = @ \cup {what}]

\* Get<Type>ArrayRegion(array, 0, n, local): the array is copied into the
\* local buffer of cap elements
GetArrayRegion(f, local, array, cap) ==
  IF ~Live(f) THEN f
  ELSE LET f1 == [f EXCEPT !.bufs = (local :> f.harr[array]) @@ @]
       IN IF Len(f.harr[array]) > cap THEN Undefined(f1, "write past the buffer")
          ELSE f1

Crash(f) == IF ~Live(f) THEN f ELSE [f EXCEPT !.proc = "crashed"]
\* a shim that keeps a table of its own and hands out its entry for a handle
SetRet_remapped(f, r) ==
  IF ~Live(f) THEN f ELSE [f EXCEPT !.ret = IF r = RInt(9) THEN RInt(4) ELSE r]

\* return r;
SetRet(f, r) == IF ~Live(f) THEN f ELSE [f EXCEPT !.ret = r]

\* the buffer b as a library function that reorders its argument leaves it
Reordered(b) == [i \in 1..Len(b) |-> b[Len(b) + 1 - i]]

\* a call fn(n, ptr, extra...) of a library function that reads n elements
\* through ptr and, when mut, reorders them in place; a null ptr with n > 0
\* is dereferenced
NativeArr(f, fn, ptr, n, extra, o, mut) ==
  IF ~Live(f) THEN f
  ELSE IF ptr = "NULL"
  THEN IF n = 0 THEN Native(f, fn, <<0, <<>>>> \o extra, o)
       ELSE Crash(Undefined([f EXCEPT !.ncalls = Append(@, <<fn, <<n, NULL>> \o extra>>)],
                            "null buffer read"))
  ELSE LET b == Buf(f, ptr)
           f1 == IF mut THEN WriteBuf(f, ptr, Reordered(b)) ELSE f
       IN Native(f1, fn, <<n, b>> \o extra, o)

\* convertToString(env, s): the host string in f.val; strOk: NewStringUTF
\* returns a string
convertToString(f, s, strOk, h) ==
  IF ~Live(f) THEN f
  ELSE IF s.k = "null" THEN [f EXCEPT !.val = NULL]
  ELSE IF strOk THEN [f EXCEPT !.val = RStr(s.v)]
  ELSE [out_of_mem_exception([f EXCEPT !.mfail = @ + 1], h) EXCEPT !.val = NULL]

\* convertToIntArray(env, n, a): the host array in f.val; arrOk: NewIntArray
\* returns an array; SetIntArrayRegion copies a[0..n-1] into it
convertToIntArray(f, n, a, arrOk, h) ==
  IF ~Live(f) THEN f
  ELSE IF ~arrOk
  THEN [out_of_mem_exception([f EXCEPT !.mfail = @ + 1], h) EXCEPT !.val = NULL]
  ELSE [f EXCEPT !.val = RInts([i \in 1..n |-> a[i]])]

\* convertToBoolArray(env, n, a): the host array in f.val; arrOk:
\* NewBooleanArray returns an array (all false); how: what
\* GetBooleanArrayElements does on it
convertToBoolArray(f, n, a, arrOk, how, h) ==
  IF ~Live(f) THEN f
  ELSE IF ~arrOk
  THEN [out_of_mem_exception([f EXCEPT !.mfail = @ + 1], h) EXCEPT !.val = NULL]
  ELSE
    LET f0 == [f EXCEPT !.harr = ("b" :> [i \in 1..n |-> FALSE]) @@ @]
        f1 == Acquire(f0, "aux", "b", how)
        f2 == IF IsNull(f1, "aux") THEN out_of_mem_exception(f1, h)
              ELSE Release(WriteBuf(f1, "aux", [i \in 1..n |-> a[i] # 0]),
                           "aux", JNI_OK)
    IN [f2 EXCEPT !.val = RBools(f2.harr["b"])]

(***************************************************************************)
(* Clone array a: make a copy                                              *)
(***************************************************************************)
\* copy is the jboolean* argument, "NULL" or the address "&copy"; how is what
\* GetIntArrayElements does (and what it stores in *copy); the pointer the
\* function returns is left in f.ptr
cloneIntArray(f, array, copy, how, newOk, h) ==
  IF ~Live(f) THEN f
  ELSE
    LET f0 == Acquire(f, "a", array, how)
    IN IF IsNull(f0, "a")
       THEN [out_of_mem_exception(f0, h) EXCEPT !.ptr = "NULL"]
       ELSE IF copy = "NULL"      \* else if (!copy): tests the pointer
       THEN LET f1 == New(f0, "clone", newOk)
                f2 == IF Live(f1)
                      THEN [f1 EXCEPT !.bufs = ("clone" :> Buf(f0, "a")) @@ @,
                                      !.ptr = "clone"]
                      ELSE [Catch(f1, h) EXCEPT !.ptr = "NULL"]
            IN Release(f2, "a", JNI_ABORT)
       ELSE [f0 EXCEPT !.ptr = "a"]

\* if (copy) tests the pointer as well
freeClonedIntArray(f, aux, copy) ==
  IF ~Live(f) THEN f
  ELSE IF copy # "NULL" THEN Release(f, aux, JNI_ABORT)
  ELSE Delete(f, aux)

(***************************************************************************)
(* CONVERSION TO/FROM GMP NUMBERS                                          *)
(***************************************************************************)
\* size_t nbytes = ((nbits + 7) >> 3) + 1;
mpz_nbytes(z) == ((mpz_sizeinbase2(z) + 7) \div 8) + 1

\* the working buffer of mpz_to_byte_array after the export and the negation;
\* aux[0] and aux[1] are set to 0, the rest is whatever the buffer held
mpz_aux(z) ==
  LET nbytes == mpz_nbytes(z)
      aux0 == [i \in 1..nbytes |-> IF i <= 2 THEN 0 ELSE 85]
      aux1 == mpz_export(aux0, z)
  IN IF z < 0 THEN negate_bytes(aux1, nbytes) ELSE aux1

\* a redundancy test that only knows the leading zero byte
mpz_redundant_zero_only(aux) == IF aux[1] = 0 /\ aux[2] >= 0 THEN 1 ELSE 0

\* bool r = (aux[0] == 0 && aux[1] >= 0) || (aux[0] == -1 && aux[1] < 0);
mpz_redundant(aux) ==
  IF (aux[1] = 0 /\ aux[2] >= 0) \/ (aux[1] = -1 /\ aux[2] < 0) THEN 1 ELSE 0

\* the bytes SetByteArrayRegion(result, 0, nbytes - r, aux + r) stores
mpz_bytes(z) ==
  LET aux == mpz_aux(z)
  IN SubSeq(aux, 1 + mpz_redundant(aux), mpz_nbytes(z))

\* the length in bytes of the magnitude of z: nbytes - 1
mpz_maglen(z) == mpz_nbytes(z) - 1

\* a choice of buffer that never takes the stack buffer
mpz_buffer_heap_only(m) == IF m < 2147483647 THEN "heap" ELSE "none"

\* the working buffer for a magnitude of m bytes (nbytes = m + 1): the 32-byte
\* stack buffer if nbytes <= 32, a heap buffer if nbytes <= INT32_MAX, and no
\* buffer at all when the size is too large
mpz_buffer(m) ==
  IF m < 32 THEN "stack"
  ELSE IF m < 2147483647 THEN "heap" ELSE "none"

\* mpz_to_byte_array for a number whose magnitude has m bytes and whose
\* encoding is bytes. newOk: the operator new of the heap buffer succeeds;
\* arrOk: NewByteArray returns an array
mpz_to_byte_array_sized(f, m, bytes, newOk, arrOk, h) ==
  IF ~Live(f) THEN f
  ELSE
    LET buf == mpz_buffer(m)
        f0 == [f EXCEPT !.ret = NULL]
        f1 == IF buf = "none"
              THEN throw_out_of_mem_exception([f0 EXCEPT !.mfail = @ + 1])
              ELSE IF buf = "heap" THEN New(f0, "aux", newOk) ELSE f0
        f2 == IF ~Live(f1) THEN f1
              ELSE IF arrOk THEN SetRet(f1, RBytes(bytes))
              ELSE out_of_mem_exception([f1 EXCEPT !.mfail = @ + 1], h)
        f3 == IF buf = "heap" THEN Delete(f2, "aux") ELSE f2
    IN Catch(f3, h)

\* mpz_to_byte_array(env, z) for a number the model writes out
mpz_to_byte_array(f, z, newOk, arrOk, h) ==
  mpz_to_byte_array_sized(f, mpz_maglen(z), mpz_bytes(z), newOk, arrOk, h)

\* a decoder that forgets mpz_neg after the import
byte_array_to_mpz_noneg(b, n, b0) ==
  IF b0 < 0
  THEN LET nb == negate_bytes(b, n)
       IN [z |-> mpz_import(n, nb), b |-> nb]
  ELSE [z |-> mpz_import(n, b), b |-> b]

RECURSIVE GCD(_, _)
GCD(a, b) == IF b = 0 THEN a ELSE GCD(b, a % b)

\* a canonicalization that leaves the sign where it is
mpq_canonicalize_unsigned(num, den) ==
  LET g == GCD(Abs(num), Abs(den))
  IN IF g = 0 THEN <<num, den>> ELSE <<num \div g, den \div g>>

\* mpq_canonicalize(q): common factors are removed and the denominator is
\* made positive; the code calls it with den # 0 only (0/0 is left alone here)
mpq_canonicalize(num, den) ==
  LET g == GCD(Abs(num), Abs(den))
      sg == IF den < 0 THEN -1 ELSE 1
  IN IF g = 0 THEN <<num, den>> ELSE <<(sg * num) \div g, (sg * den) \div g>>

\* a sign test that takes zero for positive
mpz_sgn_lax(z) == IF z < 0 THEN -1 ELSE 1

mpz_sgn(z) == IF z < 0 THEN -1 ELSE IF z > 0 THEN 1 ELSE 0

\* the decoder on the bytes b[0 .. n-1]; b0 is what the read of b[0] gives
\* (b[0] itself unless the array is empty); z is the integer, b the buffer
\* as the decoder leaves it
byte_array_to_mpz(b, n, b0) ==
  IF b0 < 0
  THEN LET nb == negate_bytes(b, n)
       IN [z |-> -mpz_import(n, nb), b |-> nb]
  ELSE [z |-> mpz_import(n, b), b |-> b]

\* byte_array_to_mpz(z, b, n) on a view; stray is the byte an out-of-bounds
\* read of b[0] gives when the view is empty
DecodeView(f, view, stray) ==
  IF ~Live(f) THEN f
  ELSE
    LET b == Buf(f, view)
        n == Len(b)
        b0 == IF n = 0 THEN stray ELSE b[1]
        d == byte_array_to_mpz(b, n, b0)
        f0 == IF n = 0 THEN Undefined(f, "read outside the view") ELSE f
        f1 == IF b0 < 0
              THEN IF n = 0 THEN Crash(Undefined(f0, "write outside the view"))
                   ELSE WriteBuf(f0, view, d.b)
              ELSE f0
    IN IF Live(f1) THEN [f1 EXCEPT !.val = d.z] ELSE f1

(***************************************************************************)
(* Inputs                                                                  *)
(***************************************************************************)
\* the array n, n-1, ..., 1 of term handles
Desc(n) == [i \in 1..n |-> n + 1 - i]

ArrLens == 0..(AUX_SIZE + ArrAbove)

Handles == {4, 9}
ErrCodes == {2}
TermOuts == {Ok(t) : t \in Handles} \cup {Err(c) : c \in ErrCodes} \cup {Oom}
Hows == {"fail", "copy", "direct"}
IntArrays == {Desc(n) : n \in 0..MaxArgs}
\* the C strings the library returns
Texts == {[k |-> "chars", v |-> "text"]}
StrOuts == {Ok(t) : t \in Texts} \cup {Err(c) : c \in ErrCodes} \cup {Oom}
LongArrays == {[i \in 1..n |-> 10 * i] : n \in 0..MaxArgs}
DenArrays == UNION {[1..n -> {-3, 2}] : n \in 0..MaxArgs}
Addresses == {4096}
PtrOuts == {Ok(p) : p \in Addresses} \cup {Err(c) : c \in ErrCodes} \cup {Oom}
RatBytes ==
  {<<v>> : v \in (-RatMag)..RatMag} \cup {<<>>, <<0, 0>>, <<0, 2>>, <<-1, -2>>}
Widths == 0..(BvStack + WidthAbove)
\* the bits the library stores for a bitvector of n bits, one int32 per bit
Bits(n) == [i \in 1..n |-> i % 3]
\* what an unassigned jstring / int local may hold
WildRefs == {NULL, RWild}
WildInts == {-1, 0, 77}

Boundaries ==
  UNION {{s * (Pow(2, 8 * k - 1) + d), s * (Pow(2, 8 * k) + d)} :
           <<k, d, s>> \in (1..MaxBytes) \X {-1, 0, 1} \X {-1, 1}}

IntVals == (-SmallMag..SmallMag) \cup Boundaries

\* the bytes 0x00, 0x01, 0x7F, 0x80, 0x81, 0xFF as jbyte
ByteVals == {0, 1, 127, -128, -127, -1}

RECURSIVE Pad(_, _)
\* b with p more bytes of sign extension in front
Pad(b, p) ==
  IF p = 0 THEN b ELSE Pad(<<IF b[1] < 0 THEN -1 ELSE 0>> \o b, p - 1)

ByteArrays ==
  {<<>>} \cup
  {Pad(b, p) : <<b, p>> \in (UNION {[1..n -> ByteVals] : n \in 1..MaxLen})
                               \X (0..MaxPad)}

(***************************************************************************)
(* The state machine                                                       *)
(***************************************************************************)
Init ==
  /\ lib = "uninit" /\ hook = FALSE /\ proc = "running" /\ yerr = 0
  /\ op = "none" /\ input = <<>> /\ jvm = NoJvm /\ ret = RVoid
  /\ pending = "none" /\ fault = FALSE /\ acq = EmptyFn /\ rel = <<>>
  /\ ncalls = <<>> /\ harr = EmptyFn /\ raised = 0 /\ heap = <<>> /\ ub = {}
  /\ mfail = 0 /\ nerr = 0 /\ nret = NULL /\ made = FALSE

\* the entry point name, called with the arguments in, ends in frame f
Leave(name, in, h, f) ==
  LET alive == f.proc = "running" /\ ~f.thrown
  IN /\ op' = name
     /\ input' = in
     /\ jvm' = IF f.raised > 0 THEN h ELSE NoJvm
     /\ proc' = IF f.proc = "running" /\ f.thrown THEN "escaped" ELSE f.proc
     /\ ret' = IF alive THEN f.ret ELSE RVoid
     /\ pending' = f.pending
     /\ fault' = f.fault
     /\ acq' = f.acq
     /\ rel' = f.rel
     /\ ncalls' = f.ncalls
     /\ harr' = f.harr
     /\ yerr' = f.yerr
     /\ raised' = f.raised
     /\ heap' = f.heap
     /\ ub' = f.ub
     /\ mfail' = f.mfail
     /\ nerr' = f.nerr
     /\ nret' = f.nret
     /\ made' = f.made

\* the host may call an entry point: the library is initialized and no call
\* is in progress
Callable == op = "none" /\ proc = "running" /\ lib = "ready"

\* the host takes the result of the call; the frame is gone
Return ==
  /\ op # "none" /\ proc = "running"
  /\ op' = "none" /\ input' = <<>> /\ jvm' = NoJvm /\ ret' = RVoid
  /\ pending' = "none" /\ fault' = FALSE /\ acq' = EmptyFn /\ rel' = <<>>
  /\ ncalls' = <<>> /\ harr' = EmptyFn /\ raised' = 0 /\ heap' = <<>> /\ ub' = {}
  /\ mfail' = 0 /\ nerr' = 0 /\ nret' = NULL
  /\ UNCHANGED <<lib, hook, proc, yerr, made>>

\* yices_init(); yices_set_out_of_mem_callback(throw_out_of_mem_exception);
\* yices_init starts with an empty error report
Yices_init ==
  /\ op = "none" /\ proc = "running" /\ lib = "uninit"
  /\ \E o \in {[kind |-> "ok", val |-> 0], [kind |-> "oom"]} :
       LET f0 == Native(NewFrame(EmptyFn), "yices_init", <<>>, o)
           f == Call(f0, "yices_set_out_of_mem_callback", <<>>)
       IN /\ Leave("init", <<>>, NoJvm,
                   IF Live(f) THEN [f EXCEPT !.yerr = 0] ELSE f)
          /\ lib' = IF Live(f) THEN "ready" ELSE lib
          /\ hook' = IF Live(f) THEN TRUE ELSE hook

\* yices_exit(): the library frees everything it holds; the callback is a
\* setting of its allocator and stays
Yices_exit ==
  /\ Callable
  /\ LET f == Call(NewFrame(EmptyFn), "yices_exit", <<>>)
     IN Leave("exit", <<>>, NoJvm, [f EXCEPT !.made = FALSE])
  /\ lib' = "uninit"
  /\ UNCHANGED hook

\* a reset that leaves the library's tables as they are
yices_reset_keeps(f) == f

\* what yices_reset() does to the library: it deletes all terms, types,
\* contexts and models and starts again with an empty error report; the
\* callback stays
yices_reset(f) == IF ~Live(f) THEN f ELSE [f EXCEPT !.made = FALSE, !.yerr = 0]

\* yices_reset(); building the tables again allocates. The arguments logged
\* are the state of the library at the call: whether handles have been made,
\* and the last error code
Yices_reset ==
  /\ Callable
  /\ \E o \in {Ok(0), Oom} :
       LET in == [handles |-> made, code |-> yerr]
           f == Native(NewFrame(EmptyFn), "yices_reset", <<>>, o)
       IN Leave("reset", in, NoJvm, yices_reset(f))
  /\ UNCHANGED <<lib, hook>>

\* return yices_error_code(); the library answers with its last error code
Yices_errorCode ==
  /\ Callable
  /\ LET f1 == Native(NewFrame(EmptyFn), "yices_error_code", <<>>, Ok(yerr))
     IN Leave("errorCode", <<>>, NoJvm, SetRet(f1, RInt(f1.val)))
  /\ UNCHANGED <<lib, hook>>

\* yices_clear_error();
Yices_resetError ==
  /\ Callable
  /\ LET f1 == Call(NewFrame(EmptyFn), "yices_clear_error", <<>>)
     IN Leave("resetError", <<>>, NoJvm, [f1 EXCEPT !.yerr = 0])
  /\ UNCHANGED <<lib, hook>>

\* to test the throw exception code
Yices_testException ==
  /\ Callable
  /\ \E h \in JvmConds :
       Leave("testException", <<>>, h, out_of_mem_exception(NewFrame(EmptyFn), h))
  /\ UNCHANGED <<lib, hook>>

Yices_testMpzToBytes ==
  /\ Callable
  /\ \E z \in IntVals, how \in {"fail", "copy"}, arrOk \in BOOLEAN, h \in JvmConds :
       LET in == [s |-> z]
           f0 == Acquire(NewFrame(in), "aux", "s", how)
           \* if (s == NULL): s is the host string, not the view
           f1 == IF IsNull(f0, "aux")
                 THEN Crash(Undefined(SetRet(f0, NULL), "null string parsed"))
                 ELSE mpz_clear(mpz_to_byte_array(mpz_init(SetRet(f0, NULL), "z"),
                                                  z, TRUE, arrOk, h), "z")
       IN Leave("testMpzToBytes", in, h, f1)
  /\ UNCHANGED <<lib, hook>>

Yices_testBytesToMpz ==
  /\ Callable
  /\ \E a \in ByteArrays, how \in {"fail", "copy", "direct"}, stray \in {0, -1},
        h \in JvmConds :
       LET in == [a |-> a]
           f0 == Acquire(NewFrame(in), "b", "a", how)
           f1 == IF IsNull(f0, "b") THEN out_of_mem_exception(f0, h)
                 ELSE LET d == DecodeView(mpz_init(f0, "z"), "b", stray)
                          p == Native(d, "mpz_out_str", <<d.val>>,
                                      [kind |-> "ok", val |-> 0])
                      IN Release(mpz_clear(p, "z"), "b", JNI_ABORT)
       IN Leave("testBytesToMpz", in, h, f1)
  /\ UNCHANGED <<lib, hook>>

(***************************************************************************)
(* and/or/xor, distinct, forall/exists: the argument array is copied,      *)
(* "otherwise the array may be modified"                                   *)
(***************************************************************************)
\* the common body: onStack holds the lengths n that pass the test for the
\* stack buffer, extras the arguments after the array
Connective(name, fn, onStack, extras) ==
  /\ Callable
  /\ \E n \in ArrLens, how \in Hows, o \in TermOuts, mut \in BOOLEAN,
        extra \in extras, h \in JvmConds :
       LET in == [arg |-> Desc(n), extra |-> extra]
           f0 == [NewFrame([arg |-> Desc(n)]) EXCEPT !.val = -1]
           f1 == IF n \in onStack
                 THEN LET g0 == GetArrayRegion(f0, "aux", "arg", AUX_SIZE)
                      IN Catch(NativeArr(g0, fn, "aux", n, extra, o, mut), h)
                 ELSE LET g0 == cloneIntArray(f0, "arg", "&copy", how, TRUE, h)
                          g1 == Catch(NativeArr(g0, fn, g0.ptr, n, extra, o, mut), h)
                      IN freeClonedIntArray(g1, g0.ptr, "&copy")
       IN Leave(name, in, h, SetRet(f1, RInt(f1.val)))
  /\ UNCHANGED <<lib, hook>>

\* one test for all six operations
StackLengths_uniform(name) == {n \in ArrLens : n <= AUX_SIZE}

\* the lengths for which the operation takes its stack buffer:
\* if (n <= AUX_SIZE) in and, if (n < AUX_SIZE) in the other five
StackLengths(name) ==
  IF name = "and" THEN {n \in ArrLens : n <= AUX_SIZE}
  ELSE {n \in ArrLens : n < AUX_SIZE}

Yices_and == Connective("and", "yices_and", StackLengths("and"), {<<>>})
Yices_or == Connective("or", "yices_or", StackLengths("or"), {<<>>})
Yices_xor == Connective("xor", "yices_xor", StackLengths("xor"), {<<>>})
Yices_distinct ==
  Connective("distinct", "yices_distinct", StackLengths("distinct"), {<<>>})
Yices_forall ==
  Connective("forall", "yices_forall", StackLengths("forall"),
             {<<t>> : t \in Handles})
Yices_exists ==
  Connective("exists", "yices_exists", StackLengths("exists"),
             {<<t>> : t \in Handles})

(***************************************************************************)
(* Entry points that wrap their native call in try/catch                   *)
(***************************************************************************)
Yices_eq ==
  /\ Callable
  /\ \E left \in Handles, right \in Handles, o \in TermOuts, h \in JvmConds :
       LET in == [left |-> left, right |-> right]
           f1 == Native(NewFrame(EmptyFn), "yices_eq", <<left, right>>, o)
           f2 == IF Live(f1) THEN SetRet(f1, RInt(f1.val))
                 ELSE SetRet(Catch(f1, h), RInt(-1))
       IN Leave("eq", in, h, f2)
  /\ UNCHANGED <<lib, hook>>

\* the 64-bit numerators, the denominators and the exponents of the model:
\* one the shim rejects, one the library takes
Nums == {1}
Dens == {-2, 3}
Exponents == {-1, 2}

Yices_mkRationalConstant ==
  /\ Callable
  /\ \E num \in Nums, den \in Dens, o \in TermOuts, h \in JvmConds :
       LET in == [num |-> num, den |-> den]
           f0 == NewFrame(EmptyFn)
           f1 == Native(f0, "yices_rational64", <<num, den>>, o)
           f2 == IF den < 0 THEN SetRet(f0, RInt(-1))
                 ELSE IF Live(f1) THEN SetRet(f1, RInt(f1.val))
                 ELSE SetRet(Catch(f1, h), RInt(-1))
       IN Leave("mkRationalConstant", in, h, f2)
  /\ UNCHANGED <<lib, hook>>

Yices_power ==
  /\ Callable
  /\ \E arg \in Handles, exponent \in Exponents, o \in TermOuts, h \in JvmConds :
       LET in == [arg |-> arg, exponent |-> exponent]
           f0 == NewFrame(EmptyFn)
           f1 == Native(f0, "yices_power", <<arg, exponent>>, o)
           f2 == IF exponent < 0 THEN SetRet(f0, RInt(-1))
                 ELSE IF Live(f1) THEN SetRet(f1, RInt(f1.val))
                 ELSE SetRet(Catch(f1, h), RInt(-1))
       IN Leave("power", in, h, f2)
  /\ UNCHANGED <<lib, hook>>

\* a root array of the collector: the null reference, or an array of handles
RootArrays ==
  {[null |-> TRUE, v |-> <<>>], [null |-> FALSE, v |-> <<>>],
   [null |-> FALSE, v |-> <<4>>]}

\* the host arrays behind the references that are not null
RootsOf(rootTerms, rootTypes) ==
  (IF rootTerms.null THEN EmptyFn ELSE "rootTerms" :> rootTerms.v) @@
  (IF rootTypes.null THEN EmptyFn ELSE "rootTypes" :> rootTypes.v)

Yices_yicesGarbageCollect ==
  /\ Callable
  /\ \E rootTerms \in RootArrays, rootTypes \in RootArrays, keepNamed \in {TRUE},
        ht \in Hows, hy \in Hows, o \in {Ok(0), Oom}, h \in JvmConds :
       LET in == [rootTerms |-> rootTerms, rootTypes |-> rootTypes,
                  keepNamed |-> keepNamed]
           f0 == NewFrame(RootsOf(rootTerms, rootTypes))
           a1 == IF rootTerms.null THEN f0
                 ELSE Acquire(f0, "root_terms", "rootTerms", ht)
           stop1 == ~rootTerms.null /\ Len(rootTerms.v) > 0 /\ IsNull(a1, "root_terms")
           a2 == IF rootTypes.null THEN a1
                 ELSE Acquire(a1, "root_types", "rootTypes", hy)
           stop2 == ~rootTypes.null /\ Len(rootTypes.v) > 0 /\ IsNull(a2, "root_types")
           terms == IF IsNull(a2, "root_terms") THEN <<>> ELSE Buf(a2, "root_terms")
           types == IF IsNull(a2, "root_types") THEN <<>> ELSE Buf(a2, "root_types")
           g == Catch(Native(a2, "yices_garbage_collect",
                             <<terms, Len(terms), types, Len(types), keepNamed>>, o), h)
           r1 == IF IsNull(a2, "root_types") THEN g
                 ELSE Release(g, "root_types", JNI_ABORT)
           r2 == IF IsNull(a2, "root_terms") THEN r1
                 ELSE Release(r1, "root_terms", JNI_ABORT)
           f == IF stop1 THEN out_of_mem_exception(a1, h)
                ELSE IF stop2 THEN out_of_mem_exception(a2, h)
                ELSE r2
       IN Leave("yicesGarbageCollect", in, h, f)
  /\ UNCHANGED <<lib, hook>>

\* ReleaseStringUTFChars has no mode: the characters are read-only and
\* nothing is copied back, as with JNI_ABORT
Yices_setTypeName ==
  /\ Callable
  /\ \E tau \in Handles, name \in Texts, how \in {"fail", "copy"},
        o \in {Ok(0), Oom} \cup {Err(c) : c \in ErrCodes}, h \in JvmConds :
       LET in == [tau |-> tau, name |-> name]
           f0 == Acquire([NewFrame([name |-> name]) EXCEPT !.val = -1],
                         "s", "name", how)
           f1 == IF IsNull(f0, "s") THEN out_of_mem_exception(f0, h)
                 ELSE LET g1 == Native(f0, "yices_set_type_name",
                                       <<tau, Buf(f0, "s")>>, o)
                          g2 == IF Live(g1) THEN g1
                                ELSE [Catch(g1, h) EXCEPT !.val = -1]
                      IN Release(g2, "s", JNI_ABORT)
       IN Leave("setTypeName", in, h, SetRet(f1, RInt(f1.val)))
  /\ UNCHANGED <<lib, hook>>

\* contextEnableOption and contextDisableOption: if (opt == NULL) tests the
\* host string, which is not null here, so the else branch always runs; the
\* library compares the option with the names it knows
ContextOption(name, fn) ==
  /\ Callable
  /\ \E ctx \in Addresses, opt \in Texts, how \in {"fail", "copy"},
        o \in {Ok(0)} \cup {Err(c) : c \in ErrCodes} :
       LET in == [ctx |-> ctx, opt |-> opt]
           f0 == Acquire([NewFrame([opt |-> opt]) EXCEPT !.val = -1],
                         "option", "opt", how)
           f1 == IF IsNull(f0, "option")
                 THEN Crash(Undefined(Call(f0, fn, <<ctx, NULL>>),
                                      "null string passed"))
                 ELSE Native(f0, fn, <<ctx, Buf(f0, "option")>>, o)
       IN Leave(name, in, NoJvm, SetRet(f1, RInt(f1.val)))
  /\ UNCHANGED <<lib, hook>>

Yices_contextEnableOption ==
  ContextOption("contextEnableOption", "yices_context_enable_option")
Yices_contextDisableOption ==
  ContextOption("contextDisableOption", "yices_context_disable_option")

\* the integers a model holds that are too long to write out: the length in
\* bytes of the magnitude, around the stack buffer and at the limit of a host
\* array
MagLens == {31, 32, 2147483647}

\* the encoding of a positive integer of m bytes whose leading byte is 0x55
LongBytes(m) == IF m > 32 THEN <<>> ELSE [i \in 1..m |-> 85]

Yices_getIntegerValueAsBytes ==
  /\ Callable
  /\ \E mdl \in Addresses, t \in Handles, m \in MagLens, newOk \in BOOLEAN,
        arrOk \in BOOLEAN, o \in {Ok(0), Oom} \cup {Err(c) : c \in ErrCodes},
        h \in JvmConds :
       LET in == [mdl |-> mdl, t |-> t, maglen |-> m]
           f0 == mpz_init(SetRet(NewFrame(EmptyFn), NULL), "z")
           f1 == Native(f0, "yices_get_mpz_value", <<mdl, t>>, o)
           f2 == IF Live(f1) /\ f1.val >= 0
                 THEN mpz_to_byte_array_sized(f1, m, LongBytes(m), newOk, arrOk, h)
                 ELSE f1
           f3 == mpz_clear(f2, "z")
       IN Leave("getIntegerValueAsBytes", in, h, Catch(f3, h))
  /\ UNCHANGED <<lib, hook>>

\* the bit widths, cardinalities and shift amounts of the model
Sizes == {-1, 0, 8}

\* bvType and newScalarType: uint32_t nb = n<0 ? 0 : n; "Yices will report
\* an error if n is 0"
SizedType(name, fn) ==
  /\ Callable
  /\ \E n \in Sizes, o \in TermOuts, h \in JvmConds :
       LET in == [n |-> n]
           nb == IF n < 0 THEN 0 ELSE n
           f1 == Native(NewFrame(EmptyFn), fn, <<nb>>,
                        IF nb = 0 THEN Err(2) ELSE o)
           f2 == IF Live(f1) THEN SetRet(f1, RInt(f1.val))
                 ELSE SetRet(Catch(f1, h), RInt(-1))
       IN Leave(name, in, h, f2)
  /\ UNCHANGED <<lib, hook>>

Yices_bvType == SizedType("bvType", "yices_bv_type")
Yices_newScalarType == SizedType("newScalarType", "yices_new_scalar_type")

Yices_bvConst ==
  /\ Callable
  /\ \E n \in Sizes, x \in Nums, o \in TermOuts, h \in JvmConds :
       LET in == [n |-> n, x |-> x]
           f0 == [NewFrame(EmptyFn) EXCEPT !.val = -1]
           f1 == IF n > 0
                 THEN Catch(Native(f0, "yices_bvconst_int64", <<n, x>>, o), h)
                 ELSE f0
       IN Leave("bvConst", in, h, SetRet(f1, RInt(f1.val)))
  /\ UNCHANGED <<lib, hook>>

Yices_bvShiftLeft0 ==
  /\ Callable
  /\ \E arg \in Handles, n \in Sizes, o \in TermOuts, h \in JvmConds :
       LET in == [arg |-> arg, n |-> n]
           f0 == [NewFrame(EmptyFn) EXCEPT !.val = -1]
           f1 == IF n >= 0
                 THEN Catch(Native(f0, "yices_shift_left0", <<arg, n>>, o), h)
                 ELSE f0
       IN Leave("bvShiftLeft0", in, h, SetRet(f1, RInt(f1.val)))
  /\ UNCHANGED <<lib, hook>>

\* Set<Type>ArrayRegion(array, 0, n, vals): the host array takes vals in its
\* first n positions
SetArrayRegion(f, array, n, vals) ==
  IF ~Live(f) THEN f
  ELSE [f EXCEPT !.harr[array] =
          [i \in 1..Len(f.harr[array]) |-> IF i <= n THEN vals[i] ELSE f.harr[array][i]]]

\* the output arrays of the caller
OutArrays == {[i \in 1..n |-> 70 + i] : n \in 0..(MaxArgs + 1)}

\* an unsigned 64-bit denominator: top is its bit 63, low the other bits
Dens64 == {[top |-> 0, low |-> 3], [top |-> 0, low |-> 2147483647],
           [top |-> 1, low |-> 0], [top |-> 1, low |-> 3]}

\* a test that takes every denominator for a jlong
fits_int64_always(den) == TRUE

\* den <= static_cast<uint64_t>(std::numeric_limits<int64_t>::max())
fits_int64(den) == den.top = 0

\* getIntegerValue and getDoubleValue: the value goes to a[0]
GetValue(name, fn, values) ==
  /\ Callable
  /\ \E mdl \in Addresses, t \in Handles, a \in OutArrays, value \in values,
        o \in {Ok(0), Oom} \cup {Err(c) : c \in ErrCodes}, h \in JvmConds :
       LET in == [mdl |-> mdl, t |-> t, a |-> a, value |-> value]
           f0 == [NewFrame([a |-> a]) EXCEPT !.val = -1]
           f1 == Native(f0, fn, <<mdl, t>>, o)
           f2 == IF Live(f1) /\ f1.val >= 0
                 THEN SetArrayRegion(f1, "a", 1, <<value>>) ELSE f1
           f3 == IF Len(a) > 0 THEN Catch(f2, h) ELSE f0
       IN Leave(name, in, h, SetRet(f3, RInt(f3.val)))
  /\ UNCHANGED <<lib, hook>>

Yices_getIntegerValue ==
  GetValue("getIntegerValue", "yices_get_int64_value", {-5, 2147483647})
\* the doubles of the model are two whole numbers
Yices_getDoubleValue ==
  GetValue("getDoubleValue", "yices_get_double_value", {-5, 2})

Yices_getRationalValue ==
  /\ Callable
  /\ \E mdl \in Addresses, t \in Handles, a \in OutArrays, num \in {-5},
        den \in Dens64, o \in {Ok(0), Oom} \cup {Err(c) : c \in ErrCodes},
        h \in JvmConds :
       LET in == [mdl |-> mdl, t |-> t, a |-> a, num |-> num, den |-> den]
           f0 == [NewFrame([a |-> a]) EXCEPT !.val = -1]
           f1 == Native(f0, "yices_get_rational64_value", <<mdl, t>>, o)
           f2 == IF Live(f1) /\ f1.val >= 0
                 THEN IF fits_int64(den)
                      THEN SetArrayRegion(f1, "a", 2, <<num, den.low>>)
                      ELSE [f1 EXCEPT !.val = -2]
                 ELSE f1
           f3 == IF Len(a) >= 2 THEN Catch(f2, h) ELSE f0
       IN Leave("getRationalValue", in, h, SetRet(f3, RInt(f3.val)))
  /\ UNCHANGED <<lib, hook>>

\* kids: the children the library puts in the vector aux
Yices_typeChildren ==
  /\ Callable
  /\ \E tau \in Handles, kids \in IntArrays, arrOk \in BOOLEAN,
        o \in {Ok(0), Oom} \cup {Err(c) : c \in ErrCodes}, h \in JvmConds :
       LET in == [tau |-> tau, kids |-> kids]
           f0 == yices_init_type_vector([NewFrame(EmptyFn) EXCEPT !.val = NULL])
           f1 == Native(f0, "yices_type_children", <<tau>>, o)
           f2 == IF Live(f1) /\ f1.val >= 0
                 THEN convertToIntArray(f1, Len(kids), kids, arrOk, h)
                 ELSE IF Live(f1) THEN [f1 EXCEPT !.val = NULL] ELSE f1
           f3 == yices_delete_type_vector(f2)
           result == IF f3.proc = "running" /\ f3.thrown THEN NULL ELSE f3.val
       IN Leave("typeChildren", in, h, SetRet(Catch(f3, h), result))
  /\ UNCHANGED <<lib, hook>>

Yices_isSubtype ==
  /\ Callable
  /\ \E tau \in Handles, sigma \in Handles, h \in JvmConds,
        o \in {Ok(TRUE), Ok(FALSE), Oom} \cup {Err(c) : c \in ErrCodes} :
       LET in == [tau |-> tau, sigma |-> sigma]
           f1 == NativeRet(NewFrame(EmptyFn), "yices_test_subtype",
                           <<tau, sigma>>, o, FALSE)
           f2 == IF Live(f1) THEN SetRet(f1, RBool(f1.val))
                 ELSE SetRet(Catch(f1, h), RBool(FALSE))
       IN Leave("isSubtype", in, h, f2)
  /\ UNCHANGED <<lib, hook>>

Yices_tupleType ==
  /\ Callable
  /\ \E a \in IntArrays, how \in Hows, o \in TermOuts, h \in JvmConds :
       LET in == [a |-> a]
           n == Len(a)
           f0 == [NewFrame(in) EXCEPT !.val = -1]
           \* n == 0: the library refuses the arity before it allocates
           f1 == IF n = 0
                 THEN Native(f0, "yices_tuple_type", <<0, NULL>>,
                             IF o.kind = "err" THEN o ELSE Err(2))
                 ELSE LET g0 == Acquire(f0, "tau", "a", how)
                      IN IF IsNull(g0, "tau") THEN out_of_mem_exception(g0, h)
                         ELSE LET g1 == Catch(NativeArr(g0, "yices_tuple_type", "tau",
                                                        n, <<>>, o, FALSE), h)
                              IN Release(g1, "tau", JNI_ABORT)
       IN Leave("tupleType", in, h, SetRet(f1, RInt(f1.val)))
  /\ UNCHANGED <<lib, hook>>

\* tuple and funApplication: acquire, call inside try/catch, release
ArrayCall(name, fn, extras) ==
  /\ Callable
  /\ \E arg \in IntArrays, how \in Hows, o \in TermOuts, extra \in extras,
        h \in JvmConds :
       LET in == [arg |-> arg, extra |-> extra]
           f0 == Acquire([NewFrame([arg |-> arg]) EXCEPT !.val = -1], "a", "arg", how)
           f1 == IF IsNull(f0, "a") THEN out_of_mem_exception(f0, h)
                 ELSE LET g1 == Catch(NativeArr(f0, fn, "a", Len(arg), extra, o,
                                                FALSE), h)
                      IN Release(g1, "a", JNI_ABORT)
       IN Leave(name, in, h, SetRet(f1, RInt(f1.val)))
  /\ UNCHANGED <<lib, hook>>

Yices_tuple == ArrayCall("tuple", "yices_tuple", {<<>>})
Yices_funApplication ==
  ArrayCall("funApplication", "yices_application", {<<t>> : t \in Handles})

\* s = fn(...); result = convertToString(env, s); yices_free_string(s);
\* unset is what result holds before the assignment
StringOf(f, fn, args, o, strOk, unset, h) ==
  LET f1 == NativeRet(f, fn, args, o, NULL)
      f2 == convertToString(f1, f1.val, strOk, h)
      f3 == Call(f2, "yices_free_string", <<f1.val>>)
  IN IF Live(f2) \/ f2.proc # "running" THEN SetRet(f3, f2.val)
     ELSE [f3 EXCEPT !.ret = unset]

Yices_typeToString ==
  /\ Callable
  /\ \E tau \in Handles, o \in StrOuts, strOk \in BOOLEAN, unset \in WildRefs,
        h \in JvmConds :
       LET f1 == StringOf(NewFrame(EmptyFn), "yices_type_to_string",
                          <<tau, 80, 4, 0>>, o, strOk, unset, h)
       IN Leave("typeToString", [tau |-> tau], h, Catch(f1, h))
  /\ UNCHANGED <<lib, hook>>

Yices_modelToString__JII ==
  /\ Callable
  /\ \E mdl \in Handles, columns \in {-1, 80}, lines \in {-1, 30}, o \in StrOuts,
        strOk \in BOOLEAN, h \in JvmConds :
       LET c == IF columns < 0 THEN 40 ELSE columns
           l == IF lines < 0 THEN 10 ELSE lines
           f1 == StringOf(NewFrame(EmptyFn), "yices_model_to_string",
                          <<mdl, c, l, 0>>, o, strOk, NULL, h)
       IN Leave("modelToString__JII",
                [mdl |-> mdl, columns |-> columns, lines |-> lines], h,
                Catch(f1, h))
  /\ UNCHANGED <<lib, hook>>

\* int result; try { result = fn(t); } catch (...) { ... } return result;
Incref(name, fn) ==
  /\ Callable
  /\ \E t \in Handles, o \in {Ok(0), Oom} \cup {Err(c) : c \in ErrCodes},
        unset \in WildInts, h \in JvmConds :
       LET f0 == [NewFrame(EmptyFn) EXCEPT !.val = unset]
           f1 == Catch(Native(f0, fn, <<t>>, o), h)
       IN Leave(name, [t |-> t], h, SetRet(f1, RInt(f1.val)))
  /\ UNCHANGED <<lib, hook>>

Yices_yicesIncrefTerm == Incref("yicesIncrefTerm", "yices_incref_term")
Yices_yicesIncrefType == Incref("yicesIncrefType", "yices_incref_type")

\* for (i < n) if (a[i] < 0) return false;
\* a comparison of lengths that lets every pair of arrays through
SameLength_any(a, b) == TRUE

\* n == env->GetArrayLength(t)
SameLength(a, b) == Len(a) = Len(b)

all_positive_longs(n, a) == \A i \in 1..n : ~(a[i] < 0)

Yices_intPoly ==
  /\ Callable
  /\ \E coeff \in LongArrays, t \in IntArrays, ha \in Hows, hc \in Hows,
        o \in TermOuts, h \in JvmConds :
       LET in == [coeff |-> coeff, t |-> t]
           n == Len(coeff)
           f0 == [NewFrame(in) EXCEPT !.val = -1]
           g0 == Acquire(Acquire(f0, "a", "t", ha), "c", "coeff", hc)
           g1 == IF IsNull(g0, "a") \/ IsNull(g0, "c")
                 THEN out_of_mem_exception(g0, h)
                 ELSE Catch(Native(g0, "yices_poly_int64",
                                   <<n, Buf(g0, "c"), Buf(g0, "a")>>, o), h)
           g2 == IF IsNull(g0, "c") THEN g1 ELSE Release(g1, "c", JNI_ABORT)
           g3 == IF IsNull(g0, "a") THEN g2 ELSE Release(g2, "a", JNI_ABORT)
           f1 == IF SameLength(coeff, t) THEN g3 ELSE f0
       IN Leave("intPoly", in, h, SetRet(f1, RInt(f1.val)))
  /\ UNCHANGED <<lib, hook>>

Yices_rationalPoly ==
  /\ Callable
  /\ \E num \in LongArrays, den \in DenArrays, t \in IntArrays, ha \in Hows,
        hp \in Hows, hq \in Hows, o \in TermOuts, h \in JvmConds :
       LET in == [num |-> num, den |-> den, t |-> t]
           n == Len(num)
           f0 == [NewFrame(in) EXCEPT !.val = -1]
           g0 == Acquire(Acquire(Acquire(f0, "a", "t", ha), "p", "num", hp),
                         "q", "den", hq)
           g1 == IF IsNull(g0, "a") \/ IsNull(g0, "p") \/ IsNull(g0, "q")
                 THEN out_of_mem_exception(g0, h)
                 ELSE IF all_positive_longs(n, Buf(g0, "q"))
                 THEN Catch(Native(g0, "yices_poly_rational64",
                                   <<n, Buf(g0, "p"), Buf(g0, "q"), Buf(g0, "a")>>,
                                   o), h)
                 ELSE g0
           g2 == IF IsNull(g0, "q") THEN g1 ELSE Release(g1, "q", JNI_ABORT)
           g3 == IF IsNull(g0, "p") THEN g2 ELSE Release(g2, "p", JNI_ABORT)
           g4 == IF IsNull(g0, "a") THEN g3 ELSE Release(g3, "a", JNI_ABORT)
           f1 == IF SameLength(num, den) /\ SameLength(num, t) THEN g4 ELSE f0
       IN Leave("rationalPoly", in, h, SetRet(f1, RInt(f1.val)))
  /\ UNCHANGED <<lib, hook>>

Yices_modelFromMap ==
  /\ Callable
  /\ \E var \in IntArrays, map \in IntArrays, hv \in Hows, hm \in Hows,
        o \in PtrOuts, h \in JvmConds :
       LET in == [var |-> var, map |-> map]
           vlen == Len(var)
           mlen == Len(map)
           f0 == [NewFrame(in) EXCEPT !.val = 0]   \* NULL pointer
           g0 == Acquire(Acquire(f0, "v", "var", hv), "m", "map", hm)
           g1 == IF IsNull(g0, "v") \/ IsNull(g0, "m")
                 THEN out_of_mem_exception(g0, h)
                 ELSE Catch(NativeRet(g0, "yices_model_from_map",
                                      <<vlen, Buf(g0, "v"), Buf(g0, "m")>>, o, 0), h)
           g2 == IF IsNull(g0, "v") THEN g1 ELSE Release(g1, "v", JNI_ABORT)
           g3 == IF IsNull(g0, "m") THEN g2 ELSE Release(g2, "m", JNI_ABORT)
           f1 == IF SameLength(var, map) THEN g3 ELSE f0
       IN Leave("modelFromMap", in, h, SetRet(f1, RInt(f1.val)))
  /\ UNCHANGED <<lib, hook>>

Yices_bytesToIntConstant ==
  /\ Callable
  /\ \E a \in ByteArrays, how \in Hows, stray \in {0, -1},
        o \in {Ok(t) : t \in Handles} \cup {Oom}, h \in JvmConds :
       LET in == [a |-> a]
           f0 == Acquire(NewFrame(in), "b", "a", how)
           f1 == IF IsNull(f0, "b") THEN SetRet(out_of_mem_exception(f0, h), RInt(-1))
                 ELSE LET d == DecodeView(mpz_init(f0, "z"), "b", stray)
                          g1 == mpz_clear(Native(d, "yices_mpz", <<d.val>>, o), "z")
                          result == IF Live(g1) THEN g1.val ELSE -1
                      IN SetRet(Release(Catch(g1, h), "b", JNI_ABORT), RInt(result))
       IN Leave("bytesToIntConstant", in, h, f1)
  /\ UNCHANGED <<lib, hook>>

Yices_bytesToRationalConstant ==
  /\ Callable
  /\ \E num \in RatBytes, den \in RatBytes, hn \in Hows, hd \in Hows,
        stray \in {0, -1}, o \in {Ok(t) : t \in Handles} \cup {Oom},
        h \in JvmConds :
       LET in == [num |-> num, den |-> den]
           f0 == Acquire(Acquire(NewFrame(in), "num_bytes", "num", hn),
                         "den_bytes", "den", hd)
           dn == DecodeView(mpz_init(f0, "q"), "num_bytes", stray)
           dd == DecodeView(dn, "den_bytes", stray)
           nonzero == mpz_sgn(dd.val) # 0
           g0 == IF nonzero
                 THEN Native(dd, "yices_mpq", mpq_canonicalize(dn.val, dd.val), o)
                 ELSE dd
           g1 == mpz_clear(g0, "q")
           result == IF Live(g1) /\ nonzero THEN g1.val ELSE -1
           f1 == IF IsNull(f0, "num_bytes") \/ IsNull(f0, "den_bytes")
                 THEN SetRet(out_of_mem_exception(f0, h), RInt(-1))
                 ELSE SetRet(Catch(g1, h), RInt(result))
           f2 == IF IsNull(f0, "num_bytes") THEN f1
                 ELSE Release(f1, "num_bytes", JNI_ABORT)
           f3 == IF IsNull(f0, "den_bytes") THEN f2
                 ELSE Release(f2, "den_bytes", JNI_ABORT)
       IN Leave("bytesToRationalConstant", in, h, f3)
  /\ UNCHANGED <<lib, hook>>

Yices_getBvValue ==
  /\ Callable
  /\ \E mdl \in Addresses, t \in Handles, n \in Widths, newOk \in BOOLEAN,
        o \in {Ok(0), Oom} \cup {Err(c) : c \in ErrCodes}, arrOk \in BOOLEAN,
        how \in Hows, h \in JvmConds :
       \* width: the number of bits the library holds for t
       LET in == [mdl |-> mdl, t |-> t, width |-> n]
           f0 == NativeRet(NewFrame(EmptyFn), "yices_term_bitsize", <<t>>,
                           IF n = 0 THEN Err(2) ELSE Ok(n), 0)
           \* code = yices_get_bv_value(mdl, t, buffer); if (code >= 0) ...
           Value(f) ==
             LET g1 == Native(f, "yices_get_bv_value", <<mdl, t>>, o)
             IN IF Live(g1) /\ g1.val >= 0
                THEN convertToBoolArray(g1, n, Bits(n), arrOk, how, h)
                ELSE [g1 EXCEPT !.val = NULL]
           f1 == IF n <= BvStack THEN Value(f0)
                 ELSE Delete(Value(New(f0, "tmp", newOk)), "tmp")
           result == IF f1.proc = "running" /\ f1.thrown THEN NULL ELSE f1.val
           f2 == IF n > 0 THEN SetRet(Catch(f1, h), result) ELSE SetRet(f0, NULL)
       IN Leave("getBvValue", in, h, f2)
  /\ UNCHANGED <<lib, hook>>

(***************************************************************************)
(* Entry points without try/catch                                          *)
(***************************************************************************)
Yices_substTerm ==
  /\ Callable
  /\ \E t \in Handles, v \in IntArrays, map \in IntArrays, hv \in Hows,
        hm \in Hows, o \in TermOuts, h \in JvmConds :
       LET in == [t |-> t, v |-> v, map |-> map]
           n == Len(v)
           f0 == [NewFrame([v |-> v, map |-> map]) EXCEPT !.val = -1]
           g0 == Acquire(Acquire(f0, "vars", "v", hv), "vals", "map", hm)
           g1 == IF IsNull(g0, "vars") \/ IsNull(g0, "vals")
                 THEN out_of_mem_exception(g0, h)
                 ELSE Native(g0, "yices_subst_term",
                             <<n, Buf(g0, "vars"), Buf(g0, "vals"), t>>, o)
           g2 == IF IsNull(g0, "vars") THEN g1 ELSE Release(g1, "vars", JNI_ABORT)
           g3 == IF IsNull(g0, "vals") THEN g2 ELSE Release(g2, "vals", JNI_ABORT)
           f1 == IF SameLength(v, map) THEN g3 ELSE f0
       IN Leave("substTerm", in, h, SetRet(f1, RInt(f1.val)))
  /\ UNCHANGED <<lib, hook>>

\* the terms the substitution puts in place of b[1..k]
Substituted(b, k) == [i \in 1..Len(b) |-> IF i <= k THEN b[i] + 100 ELSE b[i]]

\* done: how many elements the library has rewritten when it stops with an
\* error or a failed allocation
Yices_substTermArray ==
  /\ Callable
  /\ \E a \in IntArrays, v \in IntArrays, map \in IntArrays, hv \in Hows,
        hm \in Hows, ht \in Hows, o \in {Ok(0), Oom} \cup {Err(c) : c \in ErrCodes},
        done \in 0..MaxArgs, h \in JvmConds :
       LET in == [a |-> a, v |-> v, map |-> map]
           n == Len(v)
           m == Len(a)
           f0 == [NewFrame(in) EXCEPT !.val = -1]
           g0 == Acquire(Acquire(Acquire(f0, "vars", "v", hv), "vals", "map", hm),
                         "terms", "a", ht)
           k == IF o.kind = "ok" THEN m ELSE IF done < m THEN done ELSE 0
           g1 == IF IsNull(g0, "vars") \/ IsNull(g0, "vals") \/ IsNull(g0, "terms")
                 THEN out_of_mem_exception(g0, h)
                 ELSE LET b == Buf(g0, "terms")
                          c1 == WriteBuf(g0, "terms", Substituted(b, k))
                          c2 == Native(c1, "yices_subst_term_array",
                                       <<n, Buf(g0, "vars"), Buf(g0, "vals"), m, b>>, o)
                          mode == IF c2.val < 0 THEN JNI_ABORT ELSE JNI_OK
                      IN Release(c2, "terms", mode)
           g2 == IF IsNull(g0, "vars") THEN g1 ELSE Release(g1, "vars", JNI_ABORT)
           g3 == IF IsNull(g0, "vals") THEN g2 ELSE Release(g2, "vals", JNI_ABORT)
           f1 == IF SameLength(v, map) THEN g3 ELSE f0
       IN Leave("substTermArray", in, h, SetRet(f1, RInt(f1.val)))
  /\ UNCHANGED <<lib, hook>>

Yices_termToString__III ==
  /\ Callable
  /\ \E t \in Handles, columns \in {-1, 80}, lines \in {-1, 30}, o \in StrOuts,
        strOk \in BOOLEAN, unset \in WildRefs, h \in JvmConds :
       LET c == IF columns < 0 THEN 40 ELSE columns
           l == IF lines < 0 THEN 10 ELSE lines
           f1 == StringOf(NewFrame(EmptyFn), "yices_term_to_string",
                          <<t, c, l, 0>>, o, strOk, unset, h)
       IN Leave("termToString__III", [t |-> t, columns |-> columns, lines |-> lines],
                h, f1)
  /\ UNCHANGED <<lib, hook>>

Yices_termToString__I ==
  /\ Callable
  /\ \E t \in Handles, o \in StrOuts, strOk \in BOOLEAN, unset \in WildRefs,
        h \in JvmConds :
       LET f1 == StringOf(NewFrame(EmptyFn), "yices_term_to_string",
                          <<t, 80, 30, 0>>, o, strOk, unset, h)
       IN Leave("termToString__I", [t |-> t], h, f1)
  /\ UNCHANGED <<lib, hook>>

Yices_errorString ==
  /\ Callable
  /\ \E o \in {Ok(t) : t \in Texts} \cup {Oom}, strOk \in BOOLEAN,
        unset \in WildRefs, h \in JvmConds :
       LET f1 == StringOf(NewFrame(EmptyFn), "yices_error_string", <<>>, o,
                          strOk, unset, h)
       IN Leave("errorString", <<>>, h, f1)
  /\ UNCHANGED <<lib, hook>>

Next ==
  \/ Yices_init
  \/ Return
  \/ Yices_exit
  \/ Yices_reset
  \/ Yices_testException
  \/ Yices_typeChildren
  \/ Yices_getIntegerValue
  \/ Yices_getDoubleValue
  \/ Yices_getRationalValue
  \/ Yices_bvType
  \/ Yices_newScalarType
  \/ Yices_bvConst
  \/ Yices_bvShiftLeft0
  \/ Yices_getIntegerValueAsBytes
  \/ Yices_setTypeName
  \/ Yices_contextEnableOption
  \/ Yices_contextDisableOption
  \/ Yices_yicesGarbageCollect
  \/ Yices_errorCode
  \/ Yices_resetError
  \/ Yices_mkRationalConstant
  \/ Yices_power
  \/ Yices_testMpzToBytes
  \/ Yices_testBytesToMpz
  \/ Yices_and
  \/ Yices_or
  \/ Yices_xor
  \/ Yices_distinct
  \/ Yices_forall
  \/ Yices_exists
  \/ Yices_eq
  \/ Yices_isSubtype
  \/ Yices_tupleType
  \/ Yices_tuple
  \/ Yices_funApplication
  \/ Yices_typeToString
  \/ Yices_modelToString__JII
  \/ Yices_yicesIncrefTerm
  \/ Yices_yicesIncrefType
  \/ Yices_intPoly
  \/ Yices_rationalPoly
  \/ Yices_modelFromMap
  \/ Yices_bytesToIntConstant
  \/ Yices_bytesToRationalConstant
  \/ Yices_termToString__III
  \/ Yices_termToString__I
  \/ Yices_errorString
  \/ Yices_getBvValue
  \/ Yices_substTerm
  \/ Yices_substTermArray

Spec == Init /\ [][Next]_vars

(***************************************************************************)
(* Properties                                                              *)
(***************************************************************************)
RECURSIVE SignedValue(_)
\* the value of a big-endian two's-complement byte sequence of length >= 1
SignedValue(b) ==
  IF Len(b) = 1 THEN b[1]
  ELSE 256 * SignedValue(SubSeq(b, 1, Len(b) - 1)) + U8(b[Len(b)])

\* the integers that n bytes can hold in two's complement
Fits(z, n) == -Pow(2, 8 * n - 1) <= z /\ z < Pow(2, 8 * n - 1)

\* the call returned (the process is alive) from entry point name
Returned(name) == op = name /\ proc = "running"

Encoded == Returned("testMpzToBytes") /\ ret.k = "bytes"

\* C1: decoding the byte sequence that the encoder produced for an integer N
\* gives N back, for negative, zero and positive N, the boundaries
\* +/-2^(8k-1) and +/-2^(8k) included.
C1_RoundTrip ==
  Encoded =>
    byte_array_to_mpz(ret.v, Len(ret.v), ret.v[1]).z = input.s

\* a negative boundary value -2^(8k-1) was encoded and decodes to itself
C1_Witness ==
  /\ Encoded
  /\ input.s = -Pow(2, 8 * MaxBytes - 1)
  /\ byte_array_to_mpz(ret.v, Len(ret.v), ret.v[1]).z = input.s

Examples ==
  (127 :> <<127>>) @@ (-127 :> <<-127>>) @@ (128 :> <<0, -128>>) @@
  (-128 :> <<-128>>) @@ (255 :> <<0, -1>>) @@ (-255 :> <<-1, 1>>) @@
  (256 :> <<1, 0>>) @@ (-256 :> <<-1, 0>>) @@ (0 :> <<0>>)

\* C2: the encoder returns the shortest big-endian two's-complement byte
\* sequence whose signed value is N: the value is N, no shorter sequence can
\* hold N, zero is the single byte 0x00, the leading working byte is dropped
\* exactly when it is 0x00 before a byte with high bit 0 or 0xFF before a
\* byte with high bit 1, and the documented examples come out as listed.
C2_Minimal ==
  Encoded =>
    LET N == input.s
        b == ret.v
        aux == mpz_aux(N)
        lead == U8(aux[1])
        high == U8(aux[2]) >= 128
        dropped == Len(b) = Len(aux) - 1
    IN /\ Len(b) >= 1
       /\ SignedValue(b) = N
       /\ Len(b) = 1 \/ ~Fits(N, Len(b) - 1)
       /\ N = 0 => b = <<0>>
       /\ Len(b) \in {Len(aux), Len(aux) - 1}
       /\ dropped <=> ((lead = 0 /\ ~high) \/ (lead = 255 /\ high))
       /\ N \in DOMAIN Examples => b = Examples[N]

\* -256 was encoded as 0xFF 0x00: the working byte 0xFF was dropped
C2_Witness == Encoded /\ input.s = -256 /\ ret.v = <<-1, 0>>

Decoded ==
  /\ Returned("testBytesToMpz") /\ Len(input.a) >= 1
  /\ Len(ncalls) = 1 /\ ncalls[1][1] = "mpz_out_str"

\* C3: for a byte sequence of length >= 1, minimal or padded with leading
\* 0x00 (non-negative) or 0xFF (negative) bytes, the decoder gives the
\* big-endian two's-complement signed value; one more or one less byte of
\* sign padding decodes to the same integer.
C3_Decode ==
  Decoded =>
    LET a == input.a
        z == ncalls[1][2][1]
        more == Pad(a, 1)
        less == IF Len(a) >= 2 /\ Pad(Tail(a), 1) = a THEN Tail(a) ELSE a
    IN /\ z = SignedValue(a)
       /\ byte_array_to_mpz(more, Len(more), more[1]).z = z
       /\ byte_array_to_mpz(less, Len(less), less[1]).z = z

\* the padded sequence 0xFF 0xFF 0x80 was decoded, to -128
C3_Witness == Decoded /\ input.a = <<-1, -1, -128>> /\ ncalls[1][2][1] = -128

Connectives == {"and", "or", "xor", "distinct", "forall", "exists"}

\* the smallest array length for which the entry point leaves its stack buffer
Threshold(name) == IF name = "and" THEN AUX_SIZE + 1 ELSE AUX_SIZE

AboveThreshold ==
  /\ op \in Connectives /\ proc = "running"
  /\ Len(input.arg) >= Threshold(op)

\* C4: for and, or, xor, distinct, forall and exists with an array at or above
\* the stack-buffer threshold, the caller's array after the call is
\* element-for-element what it was before the call, whether the host gave a
\* copy of the array or a direct pointer to it.
C4_Isolation == AboveThreshold => harr.arg = input.arg

\* the entry points of the model whose native call sits in try/catch
Wrapped ==
  Connectives \cup
  {"eq", "isSubtype", "tupleType", "tuple", "funApplication", "typeToString",
   "modelToString__JII", "yicesIncrefTerm", "yicesIncrefType", "intPoly",
   "rationalPoly", "modelFromMap", "bytesToIntConstant",
   "bytesToRationalConstant", "getBvValue", "typeChildren",
   "mkRationalConstant", "power", "yicesGarbageCollect", "setTypeName",
   "getIntegerValueAsBytes", "bvType", "newScalarType", "bvConst",
   "bvShiftLeft0", "getIntegerValue", "getDoubleValue", "getRationalValue"}

OomClasses == {"OutOfMemory", "OutOfMemoryError"}

\* the allocation-failure hook fired during the native call of a wrapped entry point
WrappedFault == op \in Wrapped /\ fault

\* C5 (as stated): when the hook fires during the native call of a wrapped
\* entry point, the entry point returns with a host out-of-memory exception
\* pending and the process is not terminated.
C5_FaultSurfaces ==
  WrappedFault => (proc = "running" /\ pending \in OomClasses)

\* C5 (amended): when the hook fires during the native call of a wrapped
\* entry point, the fault is caught in that entry point (it never escapes)
\* and out_of_mem_exception runs; if the host can raise the shim's exception
\* or the generic out-of-memory error, the entry point returns with that
\* exception pending; if it can raise neither, the entry point returns with
\* the host's own exception pending, or, when none is pending, the process is
\* aborted by FatalError.
C5_FaultCaught ==
  WrappedFault =>
    /\ raised >= 1
    /\ proc \in {"running", "fatal"}
    /\ (jvm.generic /\ jvm.thrown) =>
         (proc = "running" /\ pending = (IF jvm.shim THEN "OutOfMemory"
                                                     ELSE "OutOfMemoryError"))
    /\ ~(jvm.generic /\ jvm.thrown) =>
         IF jvm.stale THEN proc = "running" /\ pending = "HostException"
         ELSE proc = "fatal" /\ pending = "none"

\* the hook fired inside yices_tuple; tuple returned -1 with the shim's
\* exception pending and its view released
C5_Witness ==
  /\ Returned("tuple") /\ fault /\ pending = "OutOfMemory"
  /\ ret = RInt(-1) /\ rel = <<<<"a", JNI_ABORT>>>>

\* C6: no allocation fault raised by the hook propagates out of an entry
\* point to the host; termToString (both overloads), substTerm,
\* substTermArray and errorString catch it like typeToString and
\* modelToString do.
C6_NoEscape == proc # "escaped"

AcquireShape ==
  {"tupleType", "funApplication", "intPoly", "rationalPoly", "modelFromMap",
   "bytesToRationalConstant"}

\* how many times the view was released
Releases(view) == Cardinality({i \in 1..Len(rel) : rel[i][1] = view})

\* C7: when tupleType, funApplication, intPoly, rationalPoly, modelFromMap
\* or bytesToRationalConstant returns - after success, a native semantic
\* error, a failed acquisition of any view, or a caught allocation fault -
\* every view it acquired has been released exactly once and nothing else
\* has been released.
C7_Balanced ==
  (op \in AcquireShape /\ proc = "running") =>
    /\ \A view \in DOMAIN acq : Releases(view) = 1
    /\ \A i \in 1..Len(rel) : rel[i][1] \in DOMAIN acq

\* rationalPoly returned after a caught fault in the native call, its three
\* views released once each
C7_Witness ==
  /\ Returned("rationalPoly") /\ fault /\ pending \in OomClasses
  /\ DOMAIN acq = {"a", "p", "q"} /\ Len(rel) = 3

MpqCalls == {i \in 1..Len(ncalls) : ncalls[i][1] = "yices_mpq"}

\* the denominator bytes of the call are the encoding of zero
DenZero == Len(input.den) >= 1 /\ SignedValue(input.den) = 0

\* C8: whenever the denominator bytes decode to 0, for any numerator bytes,
\* bytesToRationalConstant returns -1 and does not call the solver's rational
\* constructor; the constructor is never called with a zero denominator; and
\* the failure is distinct: a return of -1 with no exception pending happens
\* for a zero (or empty) denominator only.
C8_ZeroDenominator ==
  Returned("bytesToRationalConstant") =>
    /\ DenZero => (ret = RInt(-1) /\ MpqCalls = {})
    /\ (DenZero /\ raised = 0) => pending = "none"
    /\ \A i \in MpqCalls : ncalls[i][2][2] # 0
    /\ (ret = RInt(-1) /\ pending = "none") => (DenZero \/ input.den = <<>>)

\* 3/0, with the zero padded to two bytes, was refused
C8_Witness ==
  /\ Returned("bytesToRationalConstant")
  /\ input.num = <<3>> /\ input.den = <<0, 0>>
  /\ DOMAIN acq = {"num_bytes", "den_bytes"}
  /\ ret = RInt(-1) /\ pending = "none" /\ ncalls = <<>>

Sentinel(name) ==
  CASE name \in {"typeToString", "modelToString__JII", "termToString__III",
                 "termToString__I", "errorString", "getBvValue",
                 "testMpzToBytes", "typeChildren",
                 "getIntegerValueAsBytes"} -> NULL
    [] name = "isSubtype" -> RBool(FALSE)
    [] name = "modelFromMap" -> RInt(0)      \* the null address
    [] name \in {"init", "testBytesToMpz", "exit", "reset", "testException",
                 "resetError", "yicesGarbageCollect"} -> RVoid
    [] OTHER -> RInt(-1)

\* the call returned after an allocation failure: a caught fault of the
\* library or a failed marshalling step
AllocationFailure == op # "none" /\ proc = "running" /\ (fault \/ raised > 0)

\* C10: whenever an entry point returns after an allocation failure, its
\* return value is the documented sentinel: -1 for handle/int-returning
\* operations, null for string- and array-returning ones, false for boolean
\* queries, never an unset or partially built value.
C10_Sentinel == AllocationFailure => ret = Sentinel(op)

\* the native calls of this entry point that ran before the hook was set
BeforeHook ==
  IF op # "init" THEN {}
  ELSE {i \in 1..Len(ncalls) :
          \A j \in 1..i : ncalls[j][1] # "yices_set_out_of_mem_callback"}

\* C11: in init the allocation-failure hook is installed before any native
\* code that can allocate runs, so an allocation failure in the process never
\* ends in the library's default exit.
C11_HookFirst == BeforeHook = {} /\ proc # "exited"

\* out_of_mem_exception ran in this call; jvm holds the host's answers
Raised == raised > 0

\* the host raised the exception class the handler asked for
Thrown == jvm.generic /\ jvm.thrown

\* C12 (as stated): out_of_mem_exception raises the shim's exception when
\* its class is resolvable, otherwise the generic OutOfMemoryError, and
\* aborts the process when neither can be raised; whenever it returns, an
\* out-of-memory error is pending.
C12_OomOrAbort ==
  Raised =>
    /\ (jvm.shim /\ jvm.thrown) => pending = "OutOfMemory"
    /\ (~jvm.shim /\ Thrown) => pending = "OutOfMemoryError"
    /\ ~Thrown => proc = "fatal"
    /\ proc # "fatal" => pending \in OomClasses

\* C12 (amended): out_of_mem_exception raises the shim's exception when its
\* class is resolvable, otherwise the generic OutOfMemoryError; when the
\* class lookup or the throw fails it aborts the process only if no host
\* exception is pending, and otherwise returns with the host's own exception
\* pending; whenever it returns, some host exception is pending.
C12_ExceptionOrAbort ==
  Raised =>
    /\ (jvm.shim /\ jvm.thrown) => (pending = "OutOfMemory" /\ proc # "fatal")
    /\ (~jvm.shim /\ Thrown) => (pending = "OutOfMemoryError" /\ proc # "fatal")
    /\ (~Thrown /\ jvm.stale) => (pending = "HostException" /\ proc # "fatal")
    /\ (~Thrown /\ ~jvm.stale) => (pending = "none" /\ proc = "fatal")
    /\ proc # "fatal" => pending # "none"

\* the shim's class was not found and the generic OutOfMemoryError was raised
C12_Witness ==
  /\ Raised /\ ~jvm.shim /\ jvm.generic
  /\ pending = "OutOfMemoryError" /\ proc = "running"

\* the shim's own check turned the arguments of this call down before any
\* other work
Rejected ==
  CASE op = "mkRationalConstant" -> input.den < 0
    [] op = "power" -> input.exponent < 0
    [] op = "bvConst" -> input.n <= 0
    [] op = "bvShiftLeft0" -> input.n < 0
    [] op = "intPoly" -> Len(input.coeff) # Len(input.t)
    [] op = "rationalPoly" ->
         Len(input.num) # Len(input.den) \/ Len(input.num) # Len(input.t)
    [] op = "modelFromMap" -> Len(input.var) # Len(input.map)
    [] op \in {"substTerm", "substTermArray"} -> Len(input.v) # Len(input.map)
    [] OTHER -> FALSE

\* the library reported a semantic error in this call
SemanticError == nerr # 0

\* a marshalling step of this call failed to allocate
MarshalFailure == mfail > 0

\* C13 (as stated): a host exception is pending when an entry point returns
\* only if an allocation failure (a fault of the library, or a failed
\* acquisition or creation of a view or result object) occurred in the call; a
\* semantic error or a rejected argument gives the sentinel and no exception.
C13_AllocationOnly ==
  (op # "none" /\ proc = "running") =>
    /\ pending # "none" => (fault \/ MarshalFailure)
    /\ ((SemanticError \/ Rejected) /\ ~fault /\ ~MarshalFailure) =>
         (pending = "none" /\ ret = Sentinel(op))

\* C13 (amended): the same for every entry point but testException, which
\* raises the out-of-memory error in every call.
C13_AllocationOnlyButTest ==
  (op \notin {"none", "testException"} /\ proc = "running") =>
    /\ pending # "none" => (fault \/ MarshalFailure)
    /\ ((SemanticError \/ Rejected) /\ ~fault /\ ~MarshalFailure) =>
         (pending = "none" /\ ret = Sentinel(op))

C13_Witness ==
  /\ Returned("mkRationalConstant") /\ input.den > 0
  /\ fault /\ pending = "OutOfMemory" /\ ret = RInt(-1)

\* the call returned its failure value for a semantic error or a rejected
\* argument, with no allocation failure
ArgumentFailure ==
  /\ op # "none" /\ proc = "running"
  /\ SemanticError \/ Rejected
  /\ ~fault /\ ~MarshalFailure
  /\ ret = Sentinel(op)

\* C14: whenever an entry point returns a failure sentinel for an argument or
\* semantic error, found by the library or by the shim's own check (mismatched
\* lengths, negative size or exponent, negative or zero denominator), the last
\* error code that errorCode returns next is the code of that failure: not the
\* code of an earlier call and not 'no error'.
C14_ErrorDescribed == ArgumentFailure => (yerr # 0 /\ yerr = nerr)

\* the entry points that take arrays of one common length
LengthChecked ==
  {"intPoly", "rationalPoly", "substTerm", "substTermArray", "modelFromMap"}

\* C15: intPoly, rationalPoly, substTerm, substTermArray and modelFromMap,
\* called with arrays whose lengths differ, return the failure sentinel at
\* once: no view of a host array is acquired (nor released) and the library
\* is not called.
C15_LengthMismatch ==
  (op \in LengthChecked /\ proc = "running" /\ Rejected) =>
    /\ ret = Sentinel(op)
    /\ acq = EmptyFn /\ rel = <<>> /\ ~MarshalFailure
    /\ ncalls = <<>>
    /\ pending = "none"

C15_Witness ==
  /\ Returned("substTermArray") /\ Len(input.v) # Len(input.map)
  /\ ret = RInt(-1) /\ ncalls = <<>>

\* the connective worked in its scratch buffer: it acquired no view
OnStack == op \in Connectives /\ acq = EmptyFn /\ ~MarshalFailure

\* C16: for and, or, xor, distinct, forall and exists and every length n of
\* the host array, the scratch buffer of AUX_SIZE elements is used only when
\* all n elements fit in it, no element is written past its end, and the
\* library function always receives a buffer of exactly n elements whose
\* contents are the host array's.
C16_ScratchBuffer ==
  op \in Connectives =>
    /\ OnStack => Len(input.arg) <= AUX_SIZE
    /\ "write past the buffer" \notin ub
    /\ "null buffer read" \notin ub
    /\ ub = {} => \A i \in 1..Len(ncalls) :
                    /\ ncalls[i][2][1] = Len(input.arg)
                    /\ ncalls[i][2][2] = input.arg

\* C20: on the cloned-copy path of a connective, when acquiring the copy
\* fails, the out-of-memory error is raised, the library function is not
\* called (never with a null buffer), and nothing is released or freed for
\* the missing buffer.
C20_NoCallOnFailedClone ==
  (op \in Connectives /\ MarshalFailure) =>
    /\ Raised
    /\ ncalls = <<>> /\ "null buffer read" \notin ub
    /\ rel = <<>> /\ heap = <<>>
    /\ proc # "crashed"

\* the host array for the native array a of n integers
IntsOf(n, a) == RInts([i \in 1..n |-> a[i]])

\* the host array for the native array a of n bits, one integer per bit
BoolsOf(n, a) == RBools([i \in 1..n |-> a[i] # 0])

\* C17: convertToIntArray returns a host int array of length n whose elements
\* are the native array's, and convertToBoolArray (used by getBvValue, with a
\* stack buffer of 64 elements for widths up to 64 and a heap buffer above)
\* returns a host boolean array of length n whose element i is true exactly
\* when native element i is nonzero; if the host array cannot be allocated
\* the result is null and the out-of-memory error has been raised.
C17_Converted ==
  /\ Returned("typeChildren") =>
       /\ ret # NULL => ret = IntsOf(Len(input.kids), input.kids)
       /\ MarshalFailure => (ret = NULL /\ Raised)
  /\ Returned("getBvValue") =>
       /\ ret # NULL => ret = BoolsOf(input.width, Bits(input.width))
       /\ MarshalFailure => (ret = NULL /\ Raised)

\* the entry points that return a host string made from the library's string
StringOps ==
  {"typeToString", "modelToString__JII", "termToString__III",
   "termToString__I", "errorString"}

\* the entry points whose result is the result of one library function
Forwarding ==
  Connectives \cup StringOps \cup
  {"eq", "isSubtype", "tupleType", "tuple", "funApplication",
   "yicesIncrefTerm", "yicesIncrefType", "intPoly", "rationalPoly",
   "modelFromMap", "bytesToIntConstant", "bytesToRationalConstant",
   "substTerm", "substTermArray", "mkRationalConstant", "power", "errorCode"}

\* a forwarding entry point called the library and returned, with no
\* allocation failure and no argument rejected by the shim
ForwardedCall ==
  /\ op \in Forwarding /\ proc = "running"
  /\ ~fault /\ ~MarshalFailure /\ ~Rejected
  /\ ncalls # <<>>

\* C18: with no allocation failure and no local rejection, each forwarding
\* entry point returns exactly what the library function returned, and
\* errorCode and errorString return the library's last error code and string
\* unchanged: the shim keeps no cache and remaps nothing.
C18_Forwarded ==
  ForwardedCall =>
    /\ IF op \in StringOps
       THEN ret = (IF nret.k = "chars" THEN RStr(nret.v) ELSE NULL)
       ELSE ret.v = nret
    /\ op = "errorCode" => ret = RInt(yerr)

\* eq returned the handle yices_eq made
C18_Witness == Returned("eq") /\ ForwardedCall /\ nret = 9 /\ ret = RInt(9)

\* the process-wide state init leaves: the library initialized, the hook
\* installed, no handle made, no error recorded
JustAfterInit == lib = "ready" /\ hook /\ ~made /\ yerr = 0

\* C19: after init and any sequence of calls, reset leaves the process-wide
\* state as it is just after init: the library still initialized, the hook
\* still installed, and no handle valid beyond the predefined primitives.
C19_ResetAsInit ==
  /\ Returned("init") => JustAfterInit
  /\ Returned("reset") => JustAfterInit

\* reset was called with handles made and an error recorded
C19_Witness ==
  /\ Returned("reset") /\ input.handles /\ input.code # 0
  /\ JustAfterInit

\* the entry points of the model that make a native scratch object
ScratchOps ==
  {"bytesToIntConstant", "bytesToRationalConstant", "typeChildren",
   "getBvValue", "testBytesToMpz", "testMpzToBytes",
   "getIntegerValueAsBytes"}

\* how many times the scratch object was made, and freed
Made(block) ==
  Cardinality({i \in 1..Len(heap) : heap[i] = <<"new", block>>})
Freed(block) ==
  Cardinality({i \in 1..Len(heap) : heap[i] = <<"delete", block>>})

\* C21: every native scratch object an entry point allocates before its
\* native call (the GMP integer or rational, the type vector, the heap bit
\* buffer) is freed exactly once on every exit path, including the path where
\* the allocation fault fires during the native call.
C21_ScratchFreed ==
  (op \in ScratchOps /\ proc = "running") =>
    \A i \in 1..Len(heap) : Made(heap[i][2]) = 1 /\ Freed(heap[i][2]) = 1

\* the views the call acquired are released once each, and nothing else is
ViewsBalanced ==
  /\ \A view \in DOMAIN acq : Releases(view) = 1
  /\ \A i \in 1..Len(rel) : rel[i][1] \in DOMAIN acq

\* C22: yicesGarbageCollect releases every root-array view it acquired on
\* every exit path, including when the view of the root types cannot be
\* acquired after the view of the root terms was, and when the allocation
\* fault fires during collection; a null root array is accepted and is never
\* acquired or released.
C22_RootsReleased ==
  Returned("yicesGarbageCollect") =>
    /\ ViewsBalanced
    /\ input.rootTerms.null => "root_terms" \notin DOMAIN acq
    /\ input.rootTypes.null => "root_types" \notin DOMAIN acq

\* C23: substTermArray writes the substituted terms back into the host array
\* a only when the substitution succeeds and leaves a unchanged when it
\* fails; the views of v and map are never written back; and all three views
\* (the view of a also when the view of v or of map could not be acquired)
\* are released exactly once on every exit path.
C23_WriteBack ==
  Returned("substTermArray") =>
    /\ ret.v >= 0 => harr.a = Substituted(input.a, Len(input.a))
    /\ ret.v < 0 => harr.a = input.a
    /\ harr.v = input.v /\ harr.map = input.map
    /\ ViewsBalanced

\* the entry points of the model that take a host string
StringTakers ==
  {"testMpzToBytes", "contextEnableOption", "contextDisableOption",
   "setTypeName"}

\* C24: every entry point that takes a host string (contextEnableOption,
\* contextDisableOption and testMpzToBytes as much as setTypeName) detects a
\* failed acquisition of the string's view by testing the view, raises
\* out-of-memory without passing a null string to native code, and releases
\* the view exactly once after use on every path.
C24_StringViews ==
  op \in StringTakers =>
    /\ ub \cap {"null string parsed", "null string passed"} = {}
    /\ (MarshalFailure /\ acq = EmptyFn) => (Raised /\ ncalls = <<>>)
    /\ proc = "running" => ViewsBalanced

\* the call converted a GMP integer whose magnitude has MagLen bytes
Converting ==
  \/ Returned("testMpzToBytes")
  \/ Returned("getIntegerValueAsBytes") /\ ~SemanticError /\ ~fault
MagLen ==
  IF op = "testMpzToBytes" THEN mpz_maglen(input.s) ELSE input.maglen

\* C25: mpz_to_byte_array uses its 32-byte stack buffer exactly when the
\* working length (magnitude bytes + 1) is at most 32, and a heap buffer
\* otherwise; the heap buffer is freed exactly once on every path, including
\* when the host byte array cannot be created; and when the working length
\* exceeds the largest host array it raises out-of-memory and returns null
\* with no buffer made.
C25_Buffers ==
  Converting =>
    /\ MagLen <= 31 => (Made("aux") = 0 /\ Freed("aux") = 0)
    /\ (MagLen > 31 /\ MagLen < 2147483647) =>
         \/ Made("aux") = 1 /\ Freed("aux") = 1
         \/ Made("aux") = 0 /\ Freed("aux") = 0 /\ MarshalFailure
              /\ Raised /\ ret = NULL
    /\ MagLen >= 2147483647 =>
         /\ Made("aux") = 0 /\ Freed("aux") = 0
         /\ Raised /\ ret = NULL /\ ub = {}

\* an integer of 32 bytes went through the heap buffer, and the buffer was
\* freed although the host array could not be created
C25_Witness ==
  /\ Returned("getIntegerValueAsBytes") /\ input.maglen = 32
  /\ Made("aux") = 1 /\ Freed("aux") = 1
  /\ MarshalFailure /\ ret = NULL

\* C26: and takes the stack scratch buffer for n <= AUX_SIZE while or, xor,
\* distinct, forall and exists take it only for n < AUX_SIZE: the six
\* operations choose the same path for every length n except n = 10, where
\* and uses the stack buffer and the other five the cloned copy.
C26_Thresholds ==
  (op \in Connectives /\ proc = "running") =>
    LET n == Len(input.arg)
    IN /\ n < AUX_SIZE => OnStack
       /\ n > AUX_SIZE => ~OnStack
       /\ n = AUX_SIZE => (OnStack <=> op = "and")

\* or with 10 terms worked on the cloned copy
C26_Witness ==
  /\ Returned("or") /\ Len(input.arg) = AUX_SIZE
  /\ "a" \in DOMAIN acq /\ Len(ncalls) = 1

\* the call was made with a negative bit width, cardinality, shift amount,
\* exponent or denominator (for bvConst: a width that is not positive)
NegativeSize ==
  CASE op \in {"bvType", "newScalarType", "bvShiftLeft0"} -> input.n < 0
    [] op = "bvConst" -> input.n <= 0
    [] op = "power" -> input.exponent < 0
    [] op = "mkRationalConstant" -> input.den < 0
    [] OTHER -> FALSE

Decoders == {"bytesToIntConstant", "bytesToRationalConstant", "testBytesToMpz"}

\* C28: bytesToIntConstant, bytesToRationalConstant and testBytesToMpz leave
\* the caller's byte arrays with the contents they had before the call, for
\* every input, also those with the sign bit set (which the decoder negates
\* in place in the view), whether the host hands out a copy of the array or
\* a direct pointer to it.
C28_BytesUntouched ==
  (op \in Decoders /\ proc = "running") =>
    \A array \in DOMAIN harr : harr[array] = input[array]

\* C29: bytesToIntConstant and bytesToRationalConstant called with an empty
\* byte array read and write nothing outside the array's view: byte 0 is not
\* inspected and negate_bytes never runs with length 0.
C29_EmptyArray ==
  op \in {"bytesToIntConstant", "bytesToRationalConstant"} =>
    /\ ub \cap {"read outside the view", "write outside the view"} = {}
    /\ proc # "crashed"

\* the getters that store a value in the caller's array
Getters == {"getIntegerValue", "getRationalValue", "getDoubleValue"}

\* the number of positions the getter fills, and what it stores there
Needed == IF op = "getRationalValue" THEN 2 ELSE 1
Stored ==
  IF op = "getRationalValue" THEN <<input.num, input.den.low>>
  ELSE <<input.value>>

\* the library delivered the value of the term
Delivered == ncalls # <<>> /\ ~fault /\ ~SemanticError

\* C30: getIntegerValue, getRationalValue and getDoubleValue write into the
\* caller's array only when the native call succeeds, and then only position
\* 0 (and 1 for getRationalValue); with an array shorter than 1 (2 for
\* getRationalValue) they return -1 without calling the library; and
\* getRationalValue returns -2 and leaves the array unchanged when the
\* denominator exceeds the largest signed 64-bit value, and otherwise stores
\* exactly (numerator, denominator).
C30_OutputArray ==
  (op \in Getters /\ proc = "running") =>
    /\ Len(input.a) < Needed =>
         (ret = RInt(-1) /\ ncalls = <<>> /\ harr.a = input.a)
    /\ ret # RInt(0) => harr.a = input.a
    /\ ret = RInt(0) =>
         /\ Delivered
         /\ harr.a = [i \in 1..Len(input.a) |->
                        IF i <= Needed THEN Stored[i] ELSE input.a[i]]
    /\ (op = "getRationalValue" /\ Delivered) =>
         IF input.den.top = 1 THEN ret = RInt(-2) ELSE ret = RInt(0)
    /\ (op # "getRationalValue" /\ Delivered) => ret = RInt(0)

\* -5/3 was stored in the first two positions of an array of three
C30_Witness ==
  /\ Returned("getRationalValue") /\ Len(input.a) = 3
  /\ input.den = [top |-> 0, low |-> 3]
  /\ ret = RInt(0) /\ harr.a = <<-5, 3, 73>>

================================================================================
